---- MODULE Spec2Model ----
(***************************************************************************)
(* graphman command framework: layering of extensions over a command, the  *)
(* execution store, and the extensions that identify, guard, background    *)
(* and track command executions.                                           *)
(***************************************************************************)
EXTENDS Integers, Sequences, FiniteSets, TLC

VARIABLES
    \* ---- IntuitiveLayering (graphman_primitives/intuitive_layering.rs)
    layers,     \* IntuitiveLayering.layers: the tuple of layers held by the builder
    added,      \* history: the layers in the order of the layer() calls
    composed,   \* the command built by execute(): wrappers outermost first, base last
    lphase,     \* "build" | "run" | "unwind" | "done"
    depth,      \* the wrapper whose execute() is currently running
    trace,      \* observed enter / run / exit events
    loutput,    \* the output string, as the sequence of its comma separated parts
    \* ---- the execution store and the clock
    now,        \* Utc::now() / the tokio clock
    store,      \* graphman_command_executions: id -> row
    failures,   \* number of store calls that returned Err so far
    \* ---- executions of composed commands
    cfg,        \* the parameters given to the extensions' constructors
    stack,      \* per request: the composed command, outermost layer first, "Cmd" last
    ctx,        \* per request: the dynamic context (type name -> value)
    extends,    \* per request: history of the extend calls on its context
    pos,        \* per request: the layer whose execute() runs next / is awaited
    status,     \* per request: "absent" | "running" | "done"
    spawned,    \* per request: TRUE once ExecuteInBackground spawned the inner command
    reply,      \* per request: Option of the result returned to the caller
    bgResult,   \* per request: Option of the result of the spawned task
    rets,       \* per request: position -> Option of the result that layer returned
    calls,      \* per request: the store calls it issued, in order
    cmd,        \* per request: the base command's future
    sel,        \* per request: the timers of TrackExecution's select!
    \* ---- the GraphQL server's authentication (server/graphman/src/auth.rs)
    token,      \* Option of the result of AuthToken::new
    headers,    \* the HeaderMap of the request at hand: header name -> value
    authorized  \* Option of the bool headers_contain_correct_token returned

layerVars == <<layers, added, composed, lphase, depth, trace, loutput>>

storeVars == <<now, store, failures>>

execVars == <<cfg, stack, ctx, extends, pos, status, spawned, reply, bgResult, rets, calls, cmd,
          sel>>

authVars == <<token, headers, authorized>>

vars == <<layers, added, composed, lphase, depth, trace, loutput,
          now, store, failures,
          cfg, stack, ctx, extends, pos, status, spawned, reply, bgResult, rets, calls, cmd,
          sel, token, headers, authorized>>

-----------------------------------------------------------------------------
(* IntuitiveLayering                                                       *)

\* impl_intuitive_layering! is instantiated for tuples of up to ten layers.
MaxLayers == 10

\* TestCommand("A") of the layering tests.
BaseCommand == "A"

\* The TestExtension names stacked by the layering tests.
TestLayerNames == {"B", "C"}

LayerPushAppended(ls, l) == Append(ls, l)

\* IntuitiveLayering::layer: the new layer goes to the FRONT of the tuple.
LayerPush(ls, l) == <<l>> \o ls

\* TestExtension::layer: TestExtensionLayer(name, inner).
Wrap(l, inner) == <<l>> \o inner

\* execute(): output = L1.layer(command); output = L2.layer(output); ...
RECURSIVE ComposeFrom(_, _, _)
ComposeFrom(ls, i, output) ==
    IF i > Len(ls) THEN output
    ELSE ComposeFrom(ls, i + 1, Wrap(ls[i], output))

Compose(command, ls) == ComposeFrom(ls, 1, <<command>>)

LayerInit ==
    /\ layers = <<>>
    /\ added = <<>>
    /\ composed = <<>>
    /\ lphase = "build"
    /\ depth = 0
    /\ trace = <<>>
    /\ loutput = <<>>

\* IntuitiveLayering::new(cmd).layer(l) / .layer(l) on an n-tuple, n < 10.
L_Layer ==
    /\ lphase = "build"
    /\ Len(layers) < MaxLayers
    /\ \E l \in TestLayerNames :
        /\ layers' = LayerPush(layers, l)
        /\ added' = Append(added, l)
    /\ UNCHANGED <<composed, lphase, depth, trace, loutput>>
    /\ UNCHANGED <<storeVars, execVars, authVars>>

\* GraphmanCommand::execute of IntuitiveLayering<C, (L1, ..)>: builds the
\* nested command and executes the outermost wrapper.
L_Execute ==
    /\ lphase = "build"
    /\ Len(layers) >= 1
    /\ composed' = Compose(BaseCommand, layers)
    /\ lphase' = "run"
    /\ depth' = 1
    /\ UNCHANGED <<layers, added, trace, loutput>>
    /\ UNCHANGED <<storeVars, execVars, authVars>>

\* TestExtensionLayer::execute up to its await of the inner command.
L_Enter ==
    /\ lphase = "run"
    /\ depth < Len(composed)
    /\ trace' = Append(trace, <<"enter", composed[depth]>>)
    /\ depth' = depth + 1
    /\ UNCHANGED <<layers, added, composed, lphase, loutput>>
    /\ UNCHANGED <<storeVars, execVars, authVars>>

\* TestCommand::execute: Ok(self.0).
L_Base ==
    /\ lphase = "run"
    /\ depth = Len(composed)
    /\ trace' = Append(trace, <<"run", composed[depth]>>)
    /\ loutput' = <<composed[depth]>>
    /\ depth' = depth - 1
    /\ lphase' = "unwind"
    /\ UNCHANGED <<layers, added, composed>>
    /\ UNCHANGED <<storeVars, execVars, authVars>>

\* TestExtensionLayer::execute after the await: format!("{},{}", self.0, inner).
L_Exit ==
    /\ lphase = "unwind"
    /\ depth >= 1
    /\ trace' = Append(trace, <<"exit", composed[depth]>>)
    /\ loutput' = <<composed[depth]>> \o loutput
    /\ depth' = depth - 1
    /\ lphase' = IF depth = 1 THEN "done" ELSE "unwind"
    /\ UNCHANGED <<layers, added, composed>>
    /\ UNCHANGED <<storeVars, execVars, authVars>>

LayerNext == L_Layer \/ L_Execute \/ L_Enter \/ L_Base \/ L_Exit


-----------------------------------------------------------------------------
(* C1 *)

Enters(ls) == [i \in 1..Len(ls) |-> <<"enter", ls[i]>>]
Exits(ls) == [i \in 1..Len(ls) |-> <<"exit", ls[Len(ls) + 1 - i]>>]
ExpectedTrace(ls) == Enters(ls) \o <<<<"run", BaseCommand>>>> \o Exits(ls)

\* C1: for layers L1..Ln added in that order (n = 1..10) the execution trace
\* is L1-enter, .., Ln-enter, C, Ln-exit, .., L1-exit: at every moment of the
\* execution the trace is a prefix of that sequence, and once the execution
\* is done it is the whole sequence and the output names L1, .., Ln, C.
C1_CompositionOrder ==
    /\ lphase \in {"run", "unwind", "done"} =>
        /\ Len(trace) <= Len(ExpectedTrace(added))
        /\ trace = SubSeq(ExpectedTrace(added), 1, Len(trace))
    /\ lphase = "done" =>
        /\ trace = ExpectedTrace(added)
        /\ loutput = added \o <<BaseCommand>>

C1_Witness ==
    /\ lphase = "done"
    /\ Len(added) = MaxLayers
    /\ added[1] # added[2]
    /\ added[1] # added[MaxLayers]

-----------------------------------------------------------------------------
(* Values                                                                  *)

\* Option<T>: None is the empty sequence, Some(v) the sequence of v alone.
None == <<>>
Some(v) == <<v>>
IsSome(o) == o # <<>>
Unwrap(o) == o[1]

\* Result<O, E>. An error carries its GraphmanExtensionError variant, the name
\* of the extension that built it (error_builder!) and its source chain.
Ok(v) == [tag |-> "Ok", variant |-> "Ok", ext |-> "", value |-> v]
Err(variant, ext, source) ==
    [tag |-> "Err", variant |-> variant, ext |-> ext, value |-> source]
IsOk(res) == res.tag = "Ok"
IsErr(res) == res.tag = "Err"

\* anyhow!(err.into()): the wrapped error becomes the source of the new one.
Chain(err) == <<err.variant, err.ext>> \o err.value

ErrToStringVariant(err) == err.variant

\* Display of the base command's error (err.to_string()).
ErrToString(err) == err.value[1]

ToJsonNull(output) == <<"json", "null">>

\* serde_json::to_value(&output).
ToJson(output) == <<"json", output>>

-----------------------------------------------------------------------------
(* GraphmanStore: the execution store                                       *)

InProgress == "in_progress"
Failed == "failed"
Succeeded == "succeeded"

Rows(st) == DOMAIN st

\* The row built by new_execution.
NewExecutionRow(id, kind, t) ==
    [id |-> id, kind |-> kind, status |-> InProgress,
     error_message |-> None, command_output |-> None,
     started_at |-> t, updated_at |-> None, completed_at |-> None]

NewExecutionOtherId(st, id, kind, t) ==
    [x \in Rows(st) \cup {id + 10} |->
        IF x = id + 10 THEN NewExecutionRow(id + 10, kind, t) ELSE st[x]]

\* new_execution: INSERT. The id is the table's key: a second row with the
\* same id is refused.
CanInsert(st, id) == id \notin Rows(st)

new_execution(st, id, kind, t) ==
    [x \in Rows(st) \cup {id} |->
        IF x = id THEN NewExecutionRow(id, kind, t) ELSE st[x]]

\* get_execution: find(id).first().optional().
get_execution(st, id) == IF id \in Rows(st) THEN Some(st[id]) ELSE None

\* any_executions_in_progress: EXISTS(kind = $1 AND status = 'in_progress').
any_executions_in_progress(st, kind) ==
    \E x \in Rows(st) : st[x].kind = kind /\ st[x].status = InProgress

HeartbeatNoWrite(st, id, t) == st

HeartbeatAnyRecord(st, id, t) ==
    [x \in Rows(st) |->
        IF x = id
        THEN [st[x] EXCEPT !.status = InProgress, !.updated_at = Some(t)]
        ELSE st[x]]

\* execution_in_progress: UPDATE .. WHERE id = $1 AND completed_at IS NULL.
execution_in_progress(st, id, t) ==
    [x \in Rows(st) |->
        IF x = id /\ st[x].completed_at = None
        THEN [st[x] EXCEPT !.status = InProgress, !.updated_at = Some(t)]
        ELSE st[x]]

FailedWithoutCompletion(st, id, error_message, t) ==
    [x \in Rows(st) |->
        IF x = id
        THEN [st[x] EXCEPT !.status = Failed,
                           !.error_message = Some(error_message)]
        ELSE st[x]]

\* execution_failed: UPDATE .. WHERE id = $1.
execution_failed(st, id, error_message, t) ==
    [x \in Rows(st) |->
        IF x = id
        THEN [st[x] EXCEPT !.status = Failed,
                           !.error_message = Some(error_message),
                           !.completed_at = Some(t)]
        ELSE st[x]]

SucceededMovingStart(st, id, command_output, t) ==
    [x \in Rows(st) |->
        IF x = id
        THEN [st[x] EXCEPT !.status = Succeeded,
                           !.command_output = command_output,
                           !.started_at = t,
                           !.completed_at = Some(t)]
        ELSE st[x]]

\* execution_succeeded: UPDATE .. WHERE id = $1.
execution_succeeded(st, id, command_output, t) ==
    [x \in Rows(st) |->
        IF x = id
        THEN [st[x] EXCEPT !.status = Succeeded,
                           !.command_output = command_output,
                           !.completed_at = Some(t)]
        ELSE st[x]]

InactiveSinceStart(row, min_inactive_timestamp) ==
    row.started_at < min_inactive_timestamp

InactiveNeverHeartbeated(row, min_inactive_timestamp) ==
    row.updated_at = None /\ row.started_at < min_inactive_timestamp

InactiveNever(row, min_inactive_timestamp) == FALSE

\* The filter of handle_broken_executions on the last activity of a row.
Inactive(row, min_inactive_timestamp) ==
    \/ row.updated_at = None /\ row.started_at < min_inactive_timestamp
    \/ row.updated_at # None /\ Unwrap(row.updated_at) < min_inactive_timestamp

ReapIgnoringMaxInactive(st, kind, max_inactive_time, t) ==
    [x \in Rows(st) |->
        IF /\ st[x].kind = kind
           /\ st[x].status = InProgress
           /\ Inactive(st[x], t)
        THEN [st[x] EXCEPT !.status = Failed,
                           !.error_message = Some("Timeout"),
                           !.completed_at = Some(t)]
        ELSE st[x]]

ReapDeleting(st, kind, max_inactive_time, t) ==
    [x \in {y \in Rows(st) :
               ~ (/\ st[y].kind = kind
                  /\ st[y].status = InProgress
                  /\ Inactive(st[y], t - max_inactive_time))} |-> st[x]]

ReapSettingUpdatedAt(st, kind, max_inactive_time, t) ==
    [x \in Rows(st) |->
        IF /\ st[x].kind = kind
           /\ st[x].status = InProgress
           /\ Inactive(st[x], t - max_inactive_time)
        THEN [st[x] EXCEPT !.status = Failed,
                           !.error_message = Some("Timeout"),
                           !.updated_at = Some(t),
                           !.completed_at = Some(t)]
        ELSE st[x]]

\* handle_broken_executions: UPDATE .. WHERE kind = $1 AND status =
\* 'in_progress' AND <inactive>.
handle_broken_executions(st, kind, max_inactive_time, t) ==
    [x \in Rows(st) |->
        IF /\ st[x].kind = kind
           /\ st[x].status = InProgress
           /\ Inactive(st[x], t - max_inactive_time)
        THEN [st[x] EXCEPT !.status = Failed,
                           !.error_message = Some("Timeout"),
                           !.completed_at = Some(t)]
        ELSE st[x]]

-----------------------------------------------------------------------------
(* DynamicContext                                                           *)

TypeExecutionId == "CommandExecutionId"
TypeKind == "CommandKind"

\* DynamicContext::new: an empty map.
EmptyContext == <<>>

ExtendKeepsFirst(c, ty, v) ==
    [x \in (DOMAIN c) \cup {ty} |-> IF x \in DOMAIN c THEN c[x] ELSE v]

ExtendAlone(c, ty, v) == [x \in {ty} |-> v]

ExtendNothing(c, ty, v) == c

\* DynamicContext::extend: HashMap::insert(TypeId::of::<T>(), value).
Extend(c, ty, v) == [x \in (DOMAIN c) \cup {ty} |-> IF x = ty THEN v ELSE c[x]]

GetOrDefault(c, ty) == IF ty \in DOMAIN c THEN Ok(c[ty]) ELSE Ok(0)

\* DynamicContext::get: the value, or DynamicContextNotFound(type_name::<T>()).
Get(c, ty) ==
    IF ty \in DOMAIN c THEN Ok(c[ty])
    ELSE Err("NotFound", "DynamicContext", <<ty>>)

-----------------------------------------------------------------------------
(* Executions of composed commands                                          *)

NumRequests == 2
MaxTime == 2
MaxStoreFailures == 1

Requests == 1..NumRequests

\* Uuid::new_v4() in IdentifyCommand::new (and the id the tests put in the
\* context): every request has an id of its own.
IdOf(r) == r

\* DeploymentMutation::restart: the layers in declaration order, then the command.
RestartStackCheckInBackground ==
    <<"Identify", "HandleBroken", "ExecBg", "PreventDup", "Track", "Cmd">>

RestartStack == <<"Identify", "HandleBroken", "PreventDup", "ExecBg", "Track", "Cmd">>

\* CommandKind::RestartDeployment.into() (strum, snake_case).
RestartDeployment == "restart_deployment"

\* TestCommand::new(|| "Ok") and its anyhow!("Error").
CmdOutput == "Ok"
CmdError == Err("Raw", "Cmd", <<"Error">>)

Cur(r) == stack[r][pos[r]]

\* Requests are numbered in their order of arrival: the outermost layer of
\* request r starts after that of every request before it.
Arrived(r) ==
    pos[r] = 1 =>
        \A q \in Requests : (q < r /\ status[q] # "absent") => pos[q] > 1

Running(r, layer) == status[r] = "running" /\ Cur(r) = layer /\ Arrived(r)

PostProcessRaw(layer, res) == res

\* The result a layer makes of the result of the command it wraps.
PostProcess(layer, res) ==
    CASE layer = "HandleBroken" ->
            IF IsErr(res)
            THEN Err("CommandFailed", "HandleBrokenExecutions", Chain(res))
            ELSE res
      [] layer = "PreventDup" ->
            IF IsErr(res)
            THEN Err("CommandFailed", "PreventDuplicateExecutions", Chain(res))
            ELSE res
      [] OTHER -> res

\* Layer j returned res: the layers that await it, out to layer lo, return in turn.
RECURSIVE Unwind(_, _, _, _, _)
Unwind(stk, lo, j, res, acc) ==
    LET acc2 == [acc EXCEPT ![j] = Some(res)]
    IN  IF j <= lo THEN acc2
        ELSE Unwind(stk, lo, j - 1, PostProcess(stk[j - 1], res), acc2)

RECURSIVE IndexOf(_, _, _)
IndexOf(stk, layer, i) ==
    IF i > Len(stk) THEN 0
    ELSE IF stk[i] = layer THEN i ELSE IndexOf(stk, layer, i + 1)

\* The outermost layer of the task that currently runs request r: the first
\* layer, or the one ExecuteInBackground spawned.
TaskBase(r) == IF spawned[r] THEN IndexOf(stack[r], "ExecBg", 1) + 1 ELSE 1

\* Layer j of request r returns res and the task of r ends with it.
ReturnFrom(r, j, res, acc) ==
    LET lo == TaskBase(r)
        acc2 == Unwind(stack[r], lo, j, res, acc)
        final == Unwrap(acc2[lo])
    IN  /\ rets' = [rets EXCEPT ![r] = acc2]
        /\ status' = [status EXCEPT ![r] = "done"]
        /\ IF spawned[r]
           THEN /\ bgResult' = [bgResult EXCEPT ![r] = Some(final)]
                /\ UNCHANGED reply
           ELSE /\ reply' = [reply EXCEPT ![r] = Some(final)]
                /\ UNCHANGED bgResult

Return(r, j, res) == ReturnFrom(r, j, res, rets[r])

StartCmdTwice(r) ==
    \E d \in cfg.delays, okk \in cfg.outcomes :
        cmd' = [cmd EXCEPT ![r] = [state |-> "running", delay |-> d,
                                   due |-> now + d, ok |-> okk,
                                   runs |-> @.runs + 2]]

StartCmdNoDelay(r) ==
    \E d \in cfg.delays, okk \in cfg.outcomes :
        cmd' = [cmd EXCEPT ![r] = [state |-> "running", delay |-> d,
                                   due |-> now, ok |-> okk,
                                   runs |-> @.runs + 1]]

\* TestCommand::execute up to its sleep(delay).
StartCmd(r) ==
    \E d \in cfg.delays, okk \in cfg.outcomes :
        cmd' = [cmd EXCEPT ![r] = [state |-> "running", delay |-> d,
                                   due |-> now + d, ok |-> okk,
                                   runs |-> @.runs + 1]]

\* A record of a RestartDeploymentCommand (one of a TestCommand has no steps).
IsRestart(c) == "pause" \in DOMAIN c

StartRestartNoDelay(r) ==
    \E d \in cfg.delays, pok \in cfg.outcomes, rok \in cfg.outcomes :
        cmd' = [cmd EXCEPT ![r] = [state |-> "running", delay |-> d,
                                   due |-> now, ok |-> rok,
                                   runs |-> @.runs + 1,
                                   pause |-> IF pok THEN "ok" ELSE "err",
                                   paused_at |-> now,
                                   resume |-> "none", resumed_at |-> 0,
                                   done_at |-> 0]]

\* RestartDeploymentCommand::execute up to its sleep(delay): the pause command
\* runs to its end in the first poll (PauseDeploymentCommand::try_execute has
\* no await); its bool is discarded, its error is returned by `?` at once.
StartRestart(r) ==
    \E d \in cfg.delays, pok \in cfg.outcomes, rok \in cfg.outcomes :
        cmd' = [cmd EXCEPT ![r] = [state |-> "running", delay |-> d,
                                   due |-> IF pok THEN now + d ELSE now,
                                   ok |-> rok,
                                   runs |-> @.runs + 1,
                                   pause |-> IF pok THEN "ok" ELSE "err",
                                   paused_at |-> now,
                                   resume |-> "none", resumed_at |-> 0,
                                   done_at |-> 0]]

\* The base command is polled after its sleep elapsed and runs to its end at
\* time t: a restart whose pause succeeded runs its resume command.
Complete(c, t) ==
    IF ~IsRestart(c) THEN [c EXCEPT !.state = "done"]
    ELSE IF c.pause = "ok"
         THEN [c EXCEPT !.state = "done", !.done_at = t, !.resumed_at = t,
                        !.resume = IF c.ok THEN "ok" ELSE "err"]
         ELSE [c EXCEPT !.state = "done", !.done_at = t]

\* inner.execute(ctx): the next layer runs; the base command starts at once.
Advance(r) ==
    /\ pos' = [pos EXCEPT ![r] = @ + 1]
    /\ IF stack[r][pos[r] + 1] = "Cmd" THEN StartCmd(r)
       ELSE IF stack[r][pos[r] + 1] = "Restart" THEN StartRestart(r)
       ELSE UNCHANGED cmd

\* A store call returns Ok or Err (pool.get() or the statement failed).
StoreCall(r, op, ok) ==
    /\ ok \/ failures < MaxStoreFailures
    /\ failures' = IF ok THEN failures ELSE failures + 1
    /\ calls' = [calls EXCEPT ![r] = Append(@, <<op, IF ok THEN "ok" ELSE "err">>)]

StoreError == <<"store error">>

-----------------------------------------------------------------------------
(* The extensions                                                           *)

\* IdentifyCommandExtension::execute.
Identify(r) ==
    /\ Running(r, "Identify")
    /\ ctx' = [ctx EXCEPT ![r] =
                  Extend(Extend(@, TypeExecutionId, IdOf(r)), TypeKind, cfg.kind[r])]
    /\ extends' = [extends EXCEPT ![r] =
                      @ \o <<<<TypeExecutionId, IdOf(r)>>, <<TypeKind, cfg.kind[r]>>>>]
    /\ Advance(r)
    /\ UNCHANGED <<authVars, layerVars, storeVars>>
    /\ UNCHANGED <<cfg, stack, status, spawned, reply, bgResult, rets, calls, sel>>

ReapNeverFails(ok) == FALSE

\* `store.handle_broken_executions(..).map_err(|err| e!(Datastore, err))?`.
ReapFails(ok) == ~ok

\* HandleBrokenExecutionsExtension::execute.
HandleBroken(r) ==
    /\ Running(r, "HandleBroken")
    /\ LET kind == Get(ctx[r], TypeKind)
       IN  IF IsErr(kind)
           THEN /\ Return(r, pos[r], Err("Context", "HandleBrokenExecutions", Chain(kind)))
                /\ UNCHANGED <<store, failures, calls, pos, cmd>>
           ELSE \E ok \in BOOLEAN :
                /\ StoreCall(r, "handle_broken_executions", ok)
                /\ IF ~ReapFails(ok)
                   THEN /\ store' = handle_broken_executions(
                                        store, kind.value, cfg.max_inactive_time, now)
                        /\ Advance(r)
                        /\ UNCHANGED <<status, reply, bgResult, rets>>
                   ELSE /\ Return(r, pos[r],
                                  Err("Datastore", "HandleBrokenExecutions", StoreError))
                        /\ UNCHANGED <<store, pos, cmd>>
    /\ UNCHANGED <<authVars, layerVars, now, cfg, stack, ctx, extends, spawned, sel>>

RefusesNothing(other_executions_in_progress) == FALSE

\* `if other_executions_in_progress { return Err(..) }`.
Refuses(other_executions_in_progress) == other_executions_in_progress

\* PreventDuplicateExecutionsExtension::execute.
PreventDup(r) ==
    /\ Running(r, "PreventDup")
    /\ LET kind == Get(ctx[r], TypeKind)
       IN  IF IsErr(kind)
           THEN /\ Return(r, pos[r],
                          Err("Context", "PreventDuplicateExecutions", Chain(kind)))
                /\ UNCHANGED <<failures, calls, pos, cmd>>
           ELSE \E ok \in BOOLEAN :
                /\ ok \/ failures < MaxStoreFailures
                /\ failures' = IF ok THEN failures ELSE failures + 1
                /\ IF ~ok
                   THEN /\ calls' = [calls EXCEPT ![r] =
                                Append(@, <<"any_executions_in_progress", "err">>)]
                        /\ Return(r, pos[r],
                                  Err("Datastore", "PreventDuplicateExecutions", StoreError))
                        /\ UNCHANGED <<pos, cmd>>
                   ELSE IF Refuses(any_executions_in_progress(store, kind.value))
                   THEN /\ calls' = [calls EXCEPT ![r] =
                                Append(@, <<"any_executions_in_progress", "true">>)]
                        /\ Return(r, pos[r],
                                  Err("ExtensionFailed", "PreventDuplicateExecutions",
                                      <<"other executions are in progress", kind.value>>))
                        /\ UNCHANGED <<pos, cmd>>
                   ELSE /\ calls' = [calls EXCEPT ![r] =
                                Append(@, <<"any_executions_in_progress",
                                            IF any_executions_in_progress(store, kind.value)
                                            THEN "true" ELSE "false">>)]
                        /\ Advance(r)
                        /\ UNCHANGED <<status, reply, bgResult, rets>>
    /\ UNCHANGED <<authVars, layerVars, now, store, cfg, stack, ctx, extends, spawned, sel>>

\* ExecuteInBackgroundExtension::execute: tokio::spawn of the inner command,
\* Ok(id) to the caller at once.
ExecBg(r) ==
    /\ Running(r, "ExecBg")
    /\ LET id == Get(ctx[r], TypeExecutionId)
       IN  IF IsErr(id)
           THEN /\ Return(r, pos[r], Err("Context", "ExecuteInBackground", Chain(id)))
                /\ UNCHANGED <<spawned, pos, cmd>>
           ELSE LET acc == Unwind(stack[r], 1, pos[r], Ok(id.value), rets[r])
                IN  /\ rets' = [rets EXCEPT ![r] = acc]
                    /\ reply' = [reply EXCEPT ![r] = Some(Unwrap(acc[1]))]
                    /\ spawned' = [spawned EXCEPT ![r] = TRUE]
                    /\ Advance(r)
                    /\ UNCHANGED <<status, bgResult>>
    /\ UNCHANGED <<authVars, layerVars, storeVars, cfg, stack, ctx, extends, calls, sel>>

HeartbeatDeadlineLate(t, interval) == t + interval + 1

\* The heartbeat loop sleeps first: loop { sleep(interval).await; write }.
HeartbeatDeadline(t, interval) == t + interval

TimeoutDeadlineWrapped(t, max_execution_time) == (t + max_execution_time) % 2

\* tokio::time::sleep(max_execution_time): the instant at which it elapses.
\* With Duration::MAX that instant is beyond every run.
TimeoutDeadline(t, max_execution_time) == t + max_execution_time

RegistrationNeverFails(ok) == FALSE

\* `store.new_execution(id, kind).map_err(|err| e!(Datastore, err))?`.
RegistrationFails(ok) == ~ok

\* TrackExecutionExtension::execute up to the first poll of select!: the
\* execution is registered, the inner command and the two timers start.
Track(r) ==
    /\ Running(r, "Track")
    /\ LET id == Get(ctx[r], TypeExecutionId)
           kind == Get(ctx[r], TypeKind)
       IN  IF IsErr(id) \/ IsErr(kind)
           THEN /\ Return(r, pos[r],
                          Err("Context", "TrackExecution",
                              Chain(IF IsErr(id) THEN id ELSE kind)))
                /\ UNCHANGED <<store, failures, calls, pos, cmd, sel>>
           ELSE \E ok \in BOOLEAN :
                /\ ok => CanInsert(store, id.value)
                /\ StoreCall(r, "new_execution", ok)
                /\ IF ~RegistrationFails(ok)
                   THEN /\ store' = new_execution(store, id.value, kind.value, now)
                        /\ sel' = [sel EXCEPT ![r] =
                              [active |-> TRUE,
                               timeout_at |->
                                   TimeoutDeadline(now, cfg.max_execution_time),
                               heartbeat_at |->
                                   HeartbeatDeadline(now, cfg.heartbeat_interval)]]
                        /\ Advance(r)
                        /\ UNCHANGED <<status, reply, bgResult, rets>>
                   ELSE /\ Return(r, pos[r], Err("Datastore", "TrackExecution", StoreError))
                        /\ UNCHANGED <<store, pos, cmd, sel>>
    /\ UNCHANGED <<authVars, layerVars, now, cfg, stack, ctx, extends, spawned>>

TrackingAfterReturn(r) == pos[r] > 1

\* The select! of TrackExecution of r is pending: the record is registered
\* and no branch has completed.
StillTracking(r) == status[r] = "running" /\ sel[r].active

KeepFuture(c) == c

\* select! drops the futures of the branches that lost: a dropped future is
\* never polled again, so the command stops at the await it was suspended at.
DropFuture(c) == [c EXCEPT !.state = "dropped"]

SelIdle == [active |-> FALSE, timeout_at |-> 0, heartbeat_at |-> 0]

\* GraphmanError::Datastore from PauseDeploymentCommand / ResumeDeploymentCommand.
PauseError == Err("Datastore", "PauseDeployment", <<"pause failed">>)
ResumeError == Err("Datastore", "ResumeDeployment", <<"resume failed">>)

\* The unit value `()` RestartDeploymentCommand returns.
Unit == "()"

\* The result of RestartDeploymentCommand: the error of the step that failed.
RestartResult(c) ==
    IF c.pause = "err" THEN PauseError
    ELSE IF c.ok THEN Ok(Unit) ELSE ResumeError

\* The raw result of the base command.
CmdResult(r) ==
    IF IsRestart(cmd[r]) THEN RestartResult(cmd[r])
    ELSE IF cmd[r].ok THEN Ok(CmdOutput) ELSE CmdError

\* select!, first branch: the inner command completed;
\* handle_execution_result saves the output or the error message.
TrackInner(r) ==
    /\ StillTracking(r)
    /\ cmd[r].state = "running"
    /\ cmd[r].due <= now
    /\ \E ok \in BOOLEAN :
        LET id == ctx[r][TypeExecutionId]
            raw == CmdResult(r)
            acc == [rets[r] EXCEPT ![pos[r]] = Some(raw)]
        IN  /\ IF IsOk(raw)
               THEN /\ StoreCall(r, "execution_succeeded", ok)
                    /\ store' = IF ok
                                THEN execution_succeeded(
                                         store, id, Some(ToJson(raw.value)), now)
                                ELSE store
                    /\ ReturnFrom(r, pos[r] - 1,
                                  IF ok THEN Ok(raw.value)
                                  ELSE Err("Datastore", "TrackExecution", StoreError),
                                  acc)
               ELSE /\ StoreCall(r, "execution_failed", ok)
                    /\ store' = IF ok
                                THEN execution_failed(store, id, ErrToString(raw), now)
                                ELSE store
                    /\ ReturnFrom(r, pos[r] - 1,
                                  IF ok
                                  THEN Err("CommandFailed", "TrackExecution", Chain(raw))
                                  ELSE Err("Datastore", "TrackExecution", StoreError),
                                  acc)
    /\ cmd' = [cmd EXCEPT ![r] = Complete(@, now)]
    /\ sel' = [sel EXCEPT ![r] = SelIdle]
    /\ UNCHANGED <<authVars, layerVars, now, cfg, stack, ctx, extends, pos, spawned>>

TimeoutErrorCommandFailed(ok) == Err("CommandFailed", "TrackExecution", <<"Timeout">>)

TimeoutErrorAlways(ok) == Err("ExtensionFailed", "TrackExecution", <<"Timeout">>)

\* handle_execution_timeout: the error it returns, given the outcome of its
\* execution_failed write.
TimeoutError(ok) ==
    IF ok THEN Err("ExtensionFailed", "TrackExecution", <<"Timeout">>)
    ELSE Err("Datastore", "TrackExecution", StoreError)

\* select!, second branch: sleep(max_execution_time) elapsed;
\* handle_execution_timeout. The other two futures are dropped.
TrackTimeout(r) ==
    /\ StillTracking(r)
    /\ sel[r].timeout_at <= now
    /\ \E ok \in BOOLEAN :
        /\ StoreCall(r, "execution_failed", ok)
        /\ store' = IF ok
                    THEN execution_failed(store, ctx[r][TypeExecutionId], "Timeout", now)
                    ELSE store
        /\ Return(r, pos[r] - 1, TimeoutError(ok))
    /\ cmd' = [cmd EXCEPT ![r] = DropFuture(@)]
    /\ sel' = [sel EXCEPT ![r] = SelIdle]
    /\ UNCHANGED <<authVars, layerVars, now, cfg, stack, ctx, extends, pos, spawned>>

HeartbeatNeverStops(ok) == FALSE

\* `if let Err(err) = store.execution_in_progress(id) { return .. }`.
HeartbeatStops(ok) == ~ok

\* select!, third branch: one turn of the heartbeat loop, sleep(interval)
\* elapsed. A failed write ends the loop and the select!.
TrackHeartbeat(r) ==
    /\ StillTracking(r)
    /\ sel[r].heartbeat_at <= now
    /\ \E ok \in BOOLEAN :
        /\ StoreCall(r, "execution_in_progress", ok)
        /\ IF ~HeartbeatStops(ok)
           THEN /\ store' = IF ok
                            THEN execution_in_progress(store, ctx[r][TypeExecutionId], now)
                            ELSE store
                /\ sel' = [sel EXCEPT ![r].heartbeat_at =
                              HeartbeatDeadline(now, cfg.heartbeat_interval)]
                /\ UNCHANGED <<status, reply, bgResult, rets, cmd>>
           ELSE /\ Return(r, pos[r] - 1,
                          Err("Datastore", "TrackExecution",
                              <<"heartbeat failed">> \o StoreError))
                /\ cmd' = [cmd EXCEPT ![r] = DropFuture(@)]
                /\ sel' = [sel EXCEPT ![r] = SelIdle]
                /\ UNCHANGED store
    /\ UNCHANGED <<authVars, layerVars, now, cfg, stack, ctx, extends, pos, spawned>>

\* The base command completed and the layer that awaits it is not TrackExecution.
CmdFinish(r) ==
    /\ Running(r, "Cmd") \/ Running(r, "Restart")
    /\ ~sel[r].active
    /\ cmd[r].state = "running"
    /\ cmd[r].due <= now
    /\ Return(r, pos[r], CmdResult(r))
    /\ cmd' = [cmd EXCEPT ![r] = Complete(@, now)]
    /\ UNCHANGED <<authVars, layerVars, storeVars, cfg, stack, ctx, extends, pos, spawned, calls, sel>>

\* A timer of request r has elapsed and its future was not polled yet.
Due(r) ==
    /\ status[r] = "running"
    /\ \/ cmd[r].state = "running" /\ cmd[r].due <= now
       \/ sel[r].active /\ sel[r].timeout_at <= now
       \/ sel[r].active /\ sel[r].heartbeat_at <= now

\* Time passes; an elapsed timer wakes its task before the clock moves on.
Tick ==
    /\ now < cfg.horizon
    /\ \A r \in Requests : ~Due(r)
    /\ now' = now + 1
    /\ UNCHANGED <<authVars, layerVars, store, failures, execVars>>

-----------------------------------------------------------------------------
(* AuthToken: the authentication of the GraphQL server                      *)

\* The hex string of a SHA-256 hash has 64 characters.
AUTH_TOKEN_CHAR_COUNT == 64

\* Byte strings are sequences of characters.
TOKEN_A ==
    <<"1", "6", "b", "9", "f", "2", "9", "1", "2", "0", "0", "7", "9", "2", "2", "f",
      "e", "4", "8", "f", "5", "3", "4", "3", "d", "1", "3", "1", "8", "5", "0", "f",
      "0", "1", "f", "2", "0", "9", "5", "e", "d", "b", "c", "9", "7", "b", "f", "3",
      "8", "d", "3", "6", "e", "f", "c", "3", "1", "7", "8", "b", "a", "f", "c", "2">>

TOKEN_B ==
    <<"f", "7", "f", "4", "d", "7", "7", "d", "5", "b", "5", "a", "0", "7", "1", "8",
      "0", "4", "3", "e", "0", "d", "c", "6", "0", "6", "b", "a", "f", "4", "8", "9",
      "8", "7", "2", "5", "2", "0", "3", "7", "1", "6", "1", "8", "d", "7", "2", "f",
      "3", "7", "e", "a", "e", "4", "3", "4", "c", "e", "d", "b", "a", "5", "f", "6">>

\* graph::http::header::AUTHORIZATION.
AUTHORIZATION == "authorization"

Bearer == <<"B", "e", "a", "r", "e", "r", " ">>

\* No server was built and no request arrived.
NoServer ==
    /\ token = None
    /\ headers = <<>>
    /\ authorized = None

\* AuthToken::new: `try_into` a [u8; 64] succeeds for 64 bytes only.
AuthTokenNew(s) ==
    IF Len(s) = AUTH_TOKEN_CHAR_COUNT THEN Ok(s)
    ELSE Err("InvalidAuthToken", "AuthToken",
             <<"auth token should contain exactly 64 characters">>)

StripPrefixAlways(s, prefix) == Some(SubSeq(s, Len(prefix) + 1, Len(s)))

\* <[u8]>::strip_prefix.
StripPrefix(s, prefix) ==
    IF Len(s) >= Len(prefix) /\ SubSeq(s, 1, Len(prefix)) = prefix
    THEN Some(SubSeq(s, Len(prefix) + 1, Len(s)))
    ELSE None

\* constant_time_eq: the differences of all the bytes are accumulated, no
\* early exit; slices of different lengths are not equal.
RECURSIVE Differences(_, _, _)
Differences(a, b, i) ==
    IF i > Len(a) THEN 0
    ELSE (IF a[i] = b[i] THEN 0 ELSE 1) + Differences(a, b, i + 1)

constant_time_eq(a, b) == Len(a) = Len(b) /\ Differences(a, b, 1) = 0

\* AuthToken::headers_contain_correct_token, of the token tok.
headers_contain_correct_token(tok, hs) ==
    LET header == IF AUTHORIZATION \in DOMAIN hs THEN Some(hs[AUTHORIZATION])
                  ELSE None
        header_token == IF header = None THEN None
                        ELSE StripPrefix(Unwrap(header), Bearer)
    IN  IF header_token = None THEN FALSE
        ELSE IF Len(Unwrap(header_token)) # AUTH_TOKEN_CHAR_COUNT THEN FALSE
        ELSE constant_time_eq(tok, Unwrap(header_token))

\* The server is built with the token s.
NewAuthToken(s) ==
    /\ token = None
    /\ token' = Some(AuthTokenNew(s))
    /\ UNCHANGED <<headers, authorized>>
    /\ UNCHANGED <<layerVars, storeVars, execVars>>

\* The server checks the headers of the request at hand.
CheckHeaders ==
    /\ token # None /\ IsOk(Unwrap(token))
    /\ authorized = None
    /\ authorized' = Some(headers_contain_correct_token(Unwrap(token).value, headers))
    /\ UNCHANGED <<token, headers>>
    /\ UNCHANGED <<layerVars, storeVars, execVars>>

-----------------------------------------------------------------------------
(* Specifications                                                           *)

\* Duration::MAX, the default max_execution_time: a time no run reaches.
DurationMax == 1000000

CmdNew == [state |-> "new", delay |-> 0, due |-> 0, ok |-> TRUE, runs |-> 0]

\* The requests in `active` are about to execute the composed commands stk
\* with the contexts c0; the store is empty.
InitExec(active, stk, c0) ==
    /\ now = 0
    /\ store = <<>>
    /\ failures = 0
    /\ stack = [r \in Requests |-> stk[r]]
    /\ ctx = [r \in Requests |-> c0[r]]
    /\ pos = [r \in Requests |-> 1]
    /\ status = [r \in Requests |-> IF r \in active THEN "running" ELSE "absent"]
    /\ spawned = [r \in Requests |-> FALSE]
    /\ reply = [r \in Requests |-> None]
    /\ bgResult = [r \in Requests |-> None]
    /\ rets = [r \in Requests |-> [i \in 1..Len(stk[r]) |-> None]]
    /\ calls = [r \in Requests |-> <<>>]
    /\ cmd = [r \in Requests |-> CmdNew]
    /\ sel = [r \in Requests |-> SelIdle]

\* The parameters of a run: the kind given to IdentifyCommand::new (or put in
\* the context), TrackExecution's heartbeat_interval and max_execution_time,
\* HandleBrokenExecutions' max_inactive_time, the delays and outcomes of the
\* base command, and the time up to which the run is followed.
Config(kind, h, m, t, delays, outcomes, horizon) ==
    [kind |-> [r \in Requests |-> kind],
     heartbeat_interval |-> h, max_inactive_time |-> m, max_execution_time |-> t,
     delays |-> delays, outcomes |-> outcomes, horizon |-> horizon]

\* ---- Spec: concurrent restart requests (DeploymentMutation::restart) over
\* one store. The intervals are the ones the builders accept
\* (with_heartbeat_interval, with_max_inactive_time, with_max_execution_time).
HeartbeatIntervals == {1, 3}
MaxInactiveTimes == {1}
MaxExecutionTimes == {2, DurationMax}
RestartDelays == {2}

\* GraphmanExtensionContext::new(..): nothing in the dynamic context.
NoContext == [r \in Requests |-> EmptyContext]

NoExtends == [r \in Requests |-> <<>>]

Init ==
    /\ LayerInit
    /\ NoServer
    /\ \E h \in HeartbeatIntervals, m \in MaxInactiveTimes, t \in MaxExecutionTimes :
          cfg = Config(RestartDeployment, h, m, t, RestartDelays, BOOLEAN, MaxTime)
    /\ InitExec(Requests, [r \in Requests |-> RestartStack], NoContext)
    /\ extends = NoExtends

Next ==
    \/ \E r \in Requests : Identify(r)
    \/ \E r \in Requests : HandleBroken(r)
    \/ \E r \in Requests : PreventDup(r)
    \/ \E r \in Requests : ExecBg(r)
    \/ \E r \in Requests : Track(r)
    \/ \E r \in Requests : TrackInner(r)
    \/ \E r \in Requests : TrackTimeout(r)
    \/ \E r \in Requests : TrackHeartbeat(r)
    \/ Tick

Spec == Init /\ [][Next]_vars

\* ---- SpecTrack: one command under TrackExecution alone, as in the tests of
\* track_execution.rs: cmd.layer(TrackExecution::new(store)..).execute(ctx()).
TrackHorizon == 6

TrackStack == <<"Track", "Cmd">>

TestKind == "TestCommand"

TrackHeartbeats == {2, 3}
TrackTimeouts == {1, 3, 4, 6, DurationMax}
TrackDelays == 0..5

\* ctx() of the tests: the execution id and the command kind are in the context.
IdentifiedContext ==
    [r \in Requests |->
        Extend(Extend(EmptyContext, TypeExecutionId, IdOf(r)), TypeKind, TestKind)]

\* The two extend calls of ctx().
IdentifiedExtends ==
    [r \in Requests |-> <<<<TypeExecutionId, IdOf(r)>>, <<TypeKind, TestKind>>>>]

InitTrack ==
    /\ LayerInit
    /\ NoServer
    /\ \E h \in TrackHeartbeats, t \in TrackTimeouts :
          cfg = Config(TestKind, h, 1, t, TrackDelays, BOOLEAN, TrackHorizon)
    /\ InitExec({1}, [r \in Requests |-> TrackStack], IdentifiedContext)
    /\ extends = IdentifiedExtends

NextTrack ==
    \/ \E r \in Requests : Track(r)
    \/ \E r \in Requests : TrackInner(r)
    \/ \E r \in Requests : TrackTimeout(r)
    \/ \E r \in Requests : TrackHeartbeat(r)
    \/ Tick

SpecTrack == InitTrack /\ [][NextTrack]_vars

\* ---- SpecDup: commands under PreventDuplicateExecutions alone, as in the
\* tests of prevent_duplicate_executions.rs, next to one tracked command of
\* the same kind that registers an execution in the store.
DupStack == <<"PreventDup", "Cmd">>

DupStacks == [r \in Requests |-> IF r = 1 THEN TrackStack ELSE DupStack]

DupDelays == {0, 1}

InitDup ==
    /\ LayerInit
    /\ NoServer
    /\ cfg = Config(TestKind, 1, 1, DurationMax, DupDelays, BOOLEAN, MaxTime)
    /\ InitExec(Requests, DupStacks, IdentifiedContext)
    /\ extends = IdentifiedExtends

NextDup ==
    \/ \E r \in Requests : PreventDup(r)
    \/ \E r \in Requests : CmdFinish(r)
    \/ \E r \in Requests : Track(r)
    \/ \E r \in Requests : TrackInner(r)
    \/ \E r \in Requests : TrackHeartbeat(r)
    \/ Tick

SpecDup == InitDup /\ [][NextDup]_vars

\* ---- SpecLayering: the layering tests; no command of the framework runs.
InitLayering ==
    /\ LayerInit
    /\ NoServer
    /\ cfg = Config(RestartDeployment, 1, 1, 1, {0}, {TRUE}, 0)
    /\ InitExec({}, [r \in Requests |-> RestartStack], NoContext)
    /\ extends = NoExtends

SpecLayering == InitLayering /\ [][LayerNext]_vars

\* ---- SpecReap: one command under HandleBrokenExecutions and
\* PreventDuplicateExecutions, in the order of DeploymentMutation::restart,
\* over a store that holds the records of earlier executions, some of them
\* abandoned. No other execution runs and the clock stands at ReapNow.
ReapNow == 3

ReapStack == <<"HandleBroken", "PreventDup", "Cmd">>

\* DEFAULT_MAX_INACTIVE_TIME of HandleBrokenExecutions::new, in seconds.
DefaultMaxInactiveTime == 300

ReapMaxInactiveTimes == {1, 2, DefaultMaxInactiveTime}

\* The ids of the earlier executions.
EarlierIds == {NumRequests + 1, NumRequests + 2}

\* A record as new_execution and the heartbeats leave it.
LiveRows(id) ==
    {[NewExecutionRow(id, kind, s) EXCEPT !.updated_at = u] :
        kind \in {TestKind, RestartDeployment},
        s \in 0..ReapNow,
        u \in {None} \cup {Some(t) : t \in 0..ReapNow}}

\* started_at <= updated_at: a heartbeat follows the registration.
WellTimed(row) ==
    row.updated_at # None => row.started_at <= Unwrap(row.updated_at)

\* The records an earlier execution can have left: in progress, or finalized
\* by execution_failed or execution_succeeded at its last activity.
EarlierRows(id) ==
    LET live == {row \in LiveRows(id) : WellTimed(row)}
        end(row) == IF row.updated_at # None THEN Unwrap(row.updated_at)
                    ELSE row.started_at
        one(row) == [x \in {id} |-> row]
    IN  live
        \cup {execution_failed(one(row), id, "Error", end(row))[id] : row \in live}
        \cup {execution_succeeded(one(row), id, Some(ToJson(CmdOutput)), end(row))[id] :
                 row \in live}

InitReap ==
    /\ LayerInit
    /\ NoServer
    /\ \E m \in ReapMaxInactiveTimes :
          cfg = Config(TestKind, 1, m, DurationMax, {0}, BOOLEAN, ReapNow)
    /\ now = ReapNow
    /\ \E a \in EarlierRows(NumRequests + 1), b \in EarlierRows(NumRequests + 2) :
          store = [x \in EarlierIds |-> IF x = NumRequests + 1 THEN a ELSE b]
    /\ failures = 0
    /\ stack = [r \in Requests |-> ReapStack]
    /\ ctx = IdentifiedContext
    /\ extends = IdentifiedExtends
    /\ pos = [r \in Requests |-> 1]
    /\ status = [r \in Requests |-> IF r = 1 THEN "running" ELSE "absent"]
    /\ spawned = [r \in Requests |-> FALSE]
    /\ reply = [r \in Requests |-> None]
    /\ bgResult = [r \in Requests |-> None]
    /\ rets = [r \in Requests |-> [i \in 1..Len(ReapStack) |-> None]]
    /\ calls = [r \in Requests |-> <<>>]
    /\ cmd = [r \in Requests |-> CmdNew]
    /\ sel = [r \in Requests |-> SelIdle]

NextReap ==
    \/ \E r \in Requests : HandleBroken(r)
    \/ \E r \in Requests : PreventDup(r)
    \/ \E r \in Requests : CmdFinish(r)

SpecReap == InitReap /\ [][NextReap]_vars

\* ---- SpecContext: extend calls on one dynamic context, as in the tests of
\* dynamic_context.rs; no command runs.
MaxExtends == 3

\* The types A and B of the tests, and a type of the extensions.
ContextTypes == {"A", "B", TypeKind}

ContextValues == {1, 2}

\* ctx.extend(T(v)).
ContextExtend(r) ==
    /\ Len(extends[r]) < MaxExtends
    /\ \E ty \in ContextTypes, v \in ContextValues :
          /\ ctx' = [ctx EXCEPT ![r] = Extend(@, ty, v)]
          /\ extends' = [extends EXCEPT ![r] = Append(@, <<ty, v>>)]
    /\ UNCHANGED <<authVars, layerVars, storeVars>>
    /\ UNCHANGED <<cfg, stack, pos, status, spawned, reply, bgResult, rets, calls, cmd, sel>>

InitContext ==
    /\ LayerInit
    /\ NoServer
    /\ cfg = Config(TestKind, 1, 1, 1, {0}, {TRUE}, 0)
    /\ InitExec({}, [r \in Requests |-> TrackStack], NoContext)
    /\ extends = NoExtends

NextContext == ContextExtend(1)

SpecContext == InitContext /\ [][NextContext]_vars

\* ---- SpecIdentify: commands under IdentifyCommand alone, as in the test of
\* identify_command.rs, with contexts that were extended before.
IdentifyStack == <<"Identify", "Cmd">>

IdentifyDelays == {0, 1}

\* An execution id no request of the run is given.
OldId == 0

\* The extend calls made on a context before it is handed to execute.
PriorExtends ==
    {<<>>,
     <<<<TypeExecutionId, OldId>>>>,
     <<<<TypeKind, RestartDeployment>>, <<"A", 1>>>>,
     <<<<"B", 2>>, <<TypeExecutionId, OldId>>, <<TypeKind, RestartDeployment>>>>}

\* The context a sequence of extend calls builds from an empty one.
RECURSIVE ContextOf(_)
ContextOf(log) ==
    IF log = <<>> THEN EmptyContext
    ELSE LET n == Len(log)
         IN  Extend(ContextOf(SubSeq(log, 1, n - 1)), log[n][1], log[n][2])

InitIdentify ==
    /\ LayerInit
    /\ NoServer
    /\ cfg = Config(TestKind, 1, 1, DurationMax, IdentifyDelays, BOOLEAN, MaxTime)
    /\ extends \in [Requests -> PriorExtends]
    /\ InitExec(Requests, [r \in Requests |-> IdentifyStack],
                [r \in Requests |-> ContextOf(extends[r])])

NextIdentify ==
    \/ \E r \in Requests : Identify(r)
    \/ \E r \in Requests : CmdFinish(r)
    \/ Tick

SpecIdentify == InitIdentify /\ [][NextIdentify]_vars

\* ---- SpecStore: the operations of GraphmanExtensionStore called on one
\* execution record in any order, as any caller of the trait may: a record
\* that was reaped or finalized can still get the heartbeat or the
\* finalization write of its owner. calls[1] holds the last call only.
StoreHorizon == 4

\* The id of the record.
StoreId == IdOf(1)

StoreKinds == {TestKind, RestartDeployment}

\* The outcome of a store call: Ok, or Err when the pool or the statement failed.
StoreOutcome(op, ok) ==
    /\ ok \/ failures < MaxStoreFailures
    /\ failures' = IF ok THEN failures ELSE failures + 1
    /\ calls' = [calls EXCEPT ![1] = <<<<op, IF ok THEN "ok" ELSE "err">>>>]
    /\ UNCHANGED <<authVars, layerVars, now>>
    /\ UNCHANGED <<cfg, stack, ctx, extends, pos, status, spawned, reply,
                   bgResult, rets, cmd, sel>>

StoreNewExecution ==
    \E ok \in BOOLEAN :
        /\ ok => CanInsert(store, StoreId)
        /\ StoreOutcome("new_execution", ok)
        /\ store' = IF ok THEN new_execution(store, StoreId, cfg.kind[1], now)
                    ELSE store

StoreExecutionInProgress ==
    \E ok \in BOOLEAN :
        /\ StoreOutcome("execution_in_progress", ok)
        /\ store' = IF ok THEN execution_in_progress(store, StoreId, now) ELSE store

StoreExecutionFailed ==
    \E ok \in BOOLEAN :
        /\ StoreOutcome("execution_failed", ok)
        /\ store' = IF ok THEN execution_failed(store, StoreId, "Error", now)
                    ELSE store

StoreExecutionSucceeded ==
    \E ok \in BOOLEAN :
        /\ StoreOutcome("execution_succeeded", ok)
        /\ store' = IF ok
                    THEN execution_succeeded(store, StoreId, Some(ToJson(CmdOutput)), now)
                    ELSE store

StoreHandleBroken(kind) ==
    \E ok \in BOOLEAN :
        /\ StoreOutcome("handle_broken_executions", ok)
        /\ store' = IF ok
                    THEN handle_broken_executions(store, kind, cfg.max_inactive_time, now)
                    ELSE store

InitStore ==
    /\ LayerInit
    /\ NoServer
    /\ \E kind \in StoreKinds, m \in ReapMaxInactiveTimes :
          cfg = Config(kind, 1, m, DurationMax, {0}, {TRUE}, StoreHorizon)
    /\ InitExec({}, [r \in Requests |-> TrackStack], IdentifiedContext)
    /\ extends = IdentifiedExtends

NextStore ==
    \/ StoreNewExecution
    \/ StoreExecutionInProgress
    \/ StoreExecutionFailed
    \/ StoreExecutionSucceeded
    \/ \E kind \in StoreKinds : StoreHandleBroken(kind)
    \/ Tick

SpecStore == InitStore /\ [][NextStore]_vars

\* ---- SpecLive: one tracked command that runs to the horizon while other
\* executions of the same kind arrive and reap broken executions
\* (HandleBrokenExecutions over their own command).
LiveHorizon == 4

ReaperStack == <<"HandleBroken", "Cmd">>

LiveStacks == [r \in Requests |-> IF r = 1 THEN TrackStack ELSE ReaperStack]

LiveHeartbeats == {1, 3}
LiveMaxInactiveTimes == {2}

InitLive ==
    /\ LayerInit
    /\ NoServer
    /\ \E h \in LiveHeartbeats, m \in LiveMaxInactiveTimes :
          cfg = Config(TestKind, h, m, DurationMax, {LiveHorizon}, BOOLEAN, LiveHorizon)
    /\ InitExec(Requests, LiveStacks, IdentifiedContext)
    /\ extends = IdentifiedExtends

NextLive ==
    \/ \E r \in Requests : Track(r)
    \/ \E r \in Requests : TrackInner(r)
    \/ \E r \in Requests : TrackHeartbeat(r)
    \/ \E r \in Requests : HandleBroken(r)
    \/ \E r \in Requests : CmdFinish(r)
    \/ Tick

SpecLive == InitLive /\ [][NextLive]_vars

\* ---- SpecMissing: each extension that reads the context, alone over a
\* command, with a context that holds the execution id, the kind, both or
\* neither (no IdentifyCommand layer ran before).
MissingStacks ==
    {<<ext, "Cmd">> : ext \in {"HandleBroken", "PreventDup", "ExecBg", "Track"}}

\* The extend calls made on the context of r before execute.
PartialExtends(r) ==
    {<<>>,
     <<<<TypeExecutionId, IdOf(r)>>>>,
     <<<<TypeKind, TestKind>>>>,
     <<<<TypeExecutionId, IdOf(r)>>, <<TypeKind, TestKind>>>>}

InitMissing ==
    /\ LayerInit
    /\ NoServer
    /\ cfg = Config(TestKind, 1, 1, DurationMax, {0}, BOOLEAN, 0)
    /\ extends \in [Requests -> UNION {PartialExtends(r) : r \in Requests}]
    /\ \A r \in Requests : extends[r] \in PartialExtends(r)
    /\ \E stk \in [Requests -> MissingStacks] :
          InitExec(Requests, stk, [r \in Requests |-> ContextOf(extends[r])])

NextMissing ==
    \/ \E r \in Requests : HandleBroken(r)
    \/ \E r \in Requests : PreventDup(r)
    \/ \E r \in Requests : ExecBg(r)
    \/ \E r \in Requests : Track(r)
    \/ \E r \in Requests : TrackInner(r)
    \/ \E r \in Requests : CmdFinish(r)

SpecMissing == InitMissing /\ [][NextMissing]_vars

\* ---- SpecRestart: one restart request, the command DeploymentMutation::restart
\* composes over RestartDeploymentCommand. The delay is twice the shorter
\* heartbeat interval, as the default 20 s is twice the default 10 s.
RestartCommandStack ==
    <<"Identify", "HandleBroken", "PreventDup", "ExecBg", "Track", "Restart">>

RestartCommandDelays == {2}
RestartHeartbeats == {1, 3}
RestartMaxExecutionTimes == {1, DurationMax}

InitRestart ==
    /\ LayerInit
    /\ NoServer
    /\ \E h \in RestartHeartbeats, t \in RestartMaxExecutionTimes :
          cfg = Config(RestartDeployment, h, 1, t, RestartCommandDelays, BOOLEAN,
                       MaxTime)
    /\ InitExec({1}, [r \in Requests |-> RestartCommandStack], NoContext)
    /\ extends = NoExtends

NextRestart ==
    \/ \E r \in Requests : Identify(r)
    \/ \E r \in Requests : HandleBroken(r)
    \/ \E r \in Requests : PreventDup(r)
    \/ \E r \in Requests : ExecBg(r)
    \/ \E r \in Requests : Track(r)
    \/ \E r \in Requests : TrackInner(r)
    \/ \E r \in Requests : TrackTimeout(r)
    \/ \E r \in Requests : TrackHeartbeat(r)
    \/ Tick

SpecRestart == InitRestart /\ [][NextRestart]_vars

\* ---- SpecAuth: a server is built with a token and checks the headers of
\* one request, as in the tests of auth.rs.
Prefixes(s) == {SubSeq(s, 1, i) : i \in 0..Len(s)}

\* The values of the Authorization header: every prefix of a token with and
\* without "Bearer ", the other token, a token followed by one more
\* character, a token that differs in one character, and other spellings of
\* the prefix.
AuthHeaderValues ==
    Prefixes(TOKEN_A)
    \cup {Bearer \o s : s \in Prefixes(TOKEN_A)}
    \cup {Bearer \o TOKEN_B, TOKEN_B}
    \cup {Bearer \o TOKEN_A \o <<"0">>, Bearer \o <<" ">> \o TOKEN_A}
    \cup {Bearer \o [TOKEN_A EXCEPT ![1] = "f"],
          Bearer \o [TOKEN_A EXCEPT ![AUTH_TOKEN_CHAR_COUNT] = "6"]}
    \cup {<<"b", "e", "a", "r", "e", "r", " ">> \o TOKEN_A,
          <<"B", "e", "a", "r", "e", "r", ":">> \o TOKEN_A,
          <<"B", "a", "s", "i", "c", " ">> \o TOKEN_A}

\* The server was not built yet; the request has no header, an Authorization
\* header, or the token in another header.
InitAuth ==
    /\ LayerInit
    /\ token = None
    /\ headers \in {<<>>}
                    \cup {[n \in {AUTHORIZATION} |-> v] : v \in AuthHeaderValues}
                    \cup {[n \in {"x-auth-token"} |-> Bearer \o TOKEN_A]}
    /\ authorized = None
    /\ cfg = Config(TestKind, 1, 1, DurationMax, {0}, {TRUE}, 0)
    /\ InitExec({}, [r \in Requests |-> <<"Cmd">>], NoContext)
    /\ extends = NoExtends

NextAuth ==
    \/ \E s \in {TOKEN_A, TOKEN_B} \cup Prefixes(TOKEN_A) : NewAuthToken(s)
    \/ CheckHeaders

SpecAuth == InitAuth /\ [][NextAuth]_vars

-----------------------------------------------------------------------------
(* Properties of the store and of the extensions                            *)

Calls(r, op) == {i \in DOMAIN calls[r] : calls[r][i][1] = op}

Called(r, op, outcome) == \E i \in DOMAIN calls[r] : calls[r][i] = <<op, outcome>>

NoStoreError(r) == \A i \in DOMAIN calls[r] : calls[r][i][2] # "err"

LastCall(r) == calls[r][Len(calls[r])]

InProgressOfKind(kind) ==
    {id \in Rows(store) : store[id].kind = kind /\ store[id].status = InProgress}

\* C2: at no time do two records of the same kind have status InProgress.
C2_MutualExclusion == Cardinality(InProgressOfKind(RestartDeployment)) <= 1

DupPos(r) == IndexOf(stack[r], "PreventDup", 1)

SawDuplicate(r) == Called(r, "any_executions_in_progress", "true")

\* C3: when any_executions_in_progress(K) returned true, Prevent-Duplicate-
\* Executions returns an ExtensionFailed error, the inner command is never
\* invoked (nothing is spawned, no inner layer returns, the base command does
\* not run), and that read is the last store call of the request.
C3_DuplicateFailsFast ==
    \A r \in Requests :
        SawDuplicate(r) =>
            /\ status[r] = "done"
            /\ pos[r] = DupPos(r)
            /\ IsSome(rets[r][DupPos(r)])
            /\ Unwrap(rets[r][DupPos(r)]).variant = "ExtensionFailed"
            /\ Unwrap(rets[r][DupPos(r)]).ext = "PreventDuplicateExecutions"
            /\ IsSome(reply[r]) /\ IsErr(Unwrap(reply[r]))
            /\ ~spawned[r]
            /\ cmd[r].runs = 0
            /\ \A j \in DOMAIN rets[r] : j > DupPos(r) => rets[r][j] = None
            /\ LastCall(r) = <<"any_executions_in_progress", "true">>
            /\ Cardinality(Calls(r, "any_executions_in_progress")) = 1

C3_Witness ==
    \E r \in Requests :
        /\ SawDuplicate(r)
        /\ InProgressOfKind(RestartDeployment) # {}

SawNoDuplicate(r) == Called(r, "any_executions_in_progress", "false")

\* C4: when any_executions_in_progress(K) returned false, Prevent-Duplicate-
\* Executions invokes the inner command exactly once; an inner output is
\* returned unchanged and an inner error is returned as this extension's
\* CommandFailed error with the inner error as its source.
C4_DuplicatePassThrough ==
    \A r \in Requests :
        (stack[r] = DupStack /\ SawNoDuplicate(r)) =>
            /\ cmd[r].runs = 1
            /\ pos[r] = 2
            /\ status[r] = "done" =>
                LET inner == Unwrap(rets[r][2])
                    outer == Unwrap(rets[r][1])
                IN  /\ inner = CmdResult(r)
                    /\ IsOk(inner) => outer = Ok(CmdOutput)
                    /\ IsErr(inner) =>
                          outer = Err("CommandFailed", "PreventDuplicateExecutions",
                                      <<"Raw", "Cmd", "Error">>)
                    /\ reply[r] = Some(outer)

C4_Witness ==
    \E r \in Requests :
        /\ stack[r] = DupStack
        /\ SawNoDuplicate(r)
        /\ status[r] = "done"
        /\ ~cmd[r].ok
        /\ Unwrap(reply[r]).variant = "CommandFailed"

\* C5: a record whose status is Failed or Succeeded never changes status.
C5_TerminalStatuses ==
    [][\A id \in Rows(store) :
          store[id].status \in {Failed, Succeeded} =>
              store'[id].status = store[id].status]_vars

\* C6: once completed_at of a record is set, no field of the record changes.
C6_IdempotentFinalization ==
    [][\A id \in Rows(store) :
          store[id].completed_at # None => store'[id] = store[id]]_vars

\* C7: error_message is present iff status = Failed, and command_output is
\* present iff status = Succeeded.
C7_RecordFields ==
    \A id \in Rows(store) :
        /\ IsSome(store[id].error_message) <=> store[id].status = Failed
        /\ IsSome(store[id].command_output) <=> store[id].status = Succeeded

-----------------------------------------------------------------------------
(* Properties of TrackExecution                                             *)

TrackPos(r) == IndexOf(stack[r], "Track", 1)

\* The result TrackExecution returned for request r.
TrackResult(r) == Unwrap(rets[r][TrackPos(r)])

HeartbeatWrites(r) == Cardinality(Calls(r, "execution_in_progress"))

\* The store calls of a tracked execution with k heartbeats that ended with
\* the write `last`.
TrackedCalls(k, last) ==
    <<<<"new_execution", "ok">>>>
        \o [i \in 1..k |-> <<"execution_in_progress", "ok">>]
        \o <<last>>

\* The inner command of r succeeded after a delay D below max_execution_time
\* and every store call of r succeeded.
SucceedsInTime(r) ==
    /\ status[r] = "done"
    /\ cmd[r].runs = 1
    /\ cmd[r].ok
    /\ cmd[r].delay < cfg.max_execution_time
    /\ NoStoreError(r)

HeartbeatTie(r) ==
    cmd[r].delay > 0 /\ cmd[r].delay % cfg.heartbeat_interval = 0

TimesOut(r) ==
    /\ status[r] = "done"
    /\ cmd[r].runs = 1
    /\ cmd[r].delay > cfg.max_execution_time
    /\ ~Called(r, "execution_in_progress", "err")

\* C9 as stated: exactly one execution_failed(id, "Timeout") write, an
\* ExtensionFailed (timeout) error, and no execution_succeeded write.
C9_TimeoutOutcome ==
    \A r \in Requests :
        TimesOut(r) =>
            /\ Cardinality(Calls(r, "execution_failed")) = 1
            /\ Calls(r, "execution_succeeded") = {}
            /\ TrackResult(r) = Err("ExtensionFailed", "TrackExecution", <<"Timeout">>)

\* C9, amended: exactly one execution_failed(id, "Timeout") write and no
\* execution_succeeded write; the error is ExtensionFailed (timeout) when
\* that write succeeds, and the record is then Failed("Timeout"); it is a
\* Datastore error when that write fails.
C9_TimeoutOutcomeAmended ==
    \A r \in Requests :
        TimesOut(r) =>
            /\ Cardinality(Calls(r, "execution_failed")) = 1
            /\ Calls(r, "execution_succeeded") = {}
            /\ LastCall(r)[1] = "execution_failed"
            /\ cmd[r].state = "dropped"
            /\ LastCall(r)[2] = "ok" =>
                /\ TrackResult(r) = Err("ExtensionFailed", "TrackExecution", <<"Timeout">>)
                /\ store[IdOf(r)].status = Failed
                /\ store[IdOf(r)].error_message = Some("Timeout")
                /\ store[IdOf(r)].completed_at =
                    Some(store[IdOf(r)].started_at + cfg.max_execution_time)
            /\ LastCall(r)[2] = "err" =>
                /\ TrackResult(r).variant = "Datastore"
                /\ store[IdOf(r)].status = InProgress

C9_Witness ==
    \E r \in Requests :
        /\ TimesOut(r)
        /\ HeartbeatWrites(r) >= 1
        /\ TrackResult(r).variant = "ExtensionFailed"

HeartbeatFailed(r) == Called(r, "execution_in_progress", "err")

\* C10: when a heartbeat write fails before the inner command completes and
\* before the timeout elapses, TrackExecution returns a Datastore error at
\* once: the failed write is its last store call, the inner command is
\* dropped, and no execution_succeeded (or execution_failed) write is issued.
C10_HeartbeatFailurePreempts ==
    \A r \in Requests :
        HeartbeatFailed(r) =>
            /\ status[r] = "done"
            /\ TrackResult(r) = Err("Datastore", "TrackExecution",
                                    <<"heartbeat failed", "store error">>)
            /\ reply[r] = Some(TrackResult(r))
            /\ LastCall(r) = <<"execution_in_progress", "err">>
            /\ Calls(r, "execution_succeeded") = {}
            /\ Calls(r, "execution_failed") = {}
            /\ cmd[r].state = "dropped"
            /\ ~sel[r].active

C10_Witness ==
    \E r \in Requests :
        /\ HeartbeatFailed(r)
        /\ cmd[r].ok
        /\ cmd[r].delay < cfg.max_execution_time
        /\ HeartbeatWrites(r) = 2
        /\ store[IdOf(r)].status = InProgress

-----------------------------------------------------------------------------
(* Properties of executions in the background                               *)

\* The task ExecuteInBackground spawned for r registered the execution and
\* ended with an error; no store call of r failed other than a heartbeat.
BackgroundFailure(r) ==
    /\ spawned[r]
    /\ status[r] = "done"
    /\ IsSome(bgResult[r]) /\ IsErr(Unwrap(bgResult[r]))
    /\ Called(r, "new_execution", "ok")
    /\ \A i \in DOMAIN calls[r] :
          calls[r][i][2] = "err" => calls[r][i][1] = "execution_in_progress"

\* C11: after a failure of a backgrounded, tracked command (timeout, inner
\* command error or heartbeat failure) the record with the id returned to the
\* caller has status Failed.
C11_FailuresVisible ==
    \A r \in Requests :
        BackgroundFailure(r) =>
            /\ IsSome(get_execution(store, IdOf(r)))
            /\ Unwrap(get_execution(store, IdOf(r))).status = Failed

-----------------------------------------------------------------------------
(* Further properties of TrackExecution                                     *)

RegistrationFailed(r) == Called(r, "new_execution", "err")

\* C12: if new_execution fails, Track-Execution returns a Datastore error,
\* the inner command is never invoked, and no heartbeat, fail or succeed write
\* is issued: the failed registration is the only store call.
C12_RegistrationFailureFatal ==
    \A r \in Requests :
        RegistrationFailed(r) =>
            /\ status[r] = "done"
            /\ TrackResult(r) = Err("Datastore", "TrackExecution", <<"store error">>)
            /\ reply[r] = Some(TrackResult(r))
            /\ cmd[r].runs = 0
            /\ pos[r] = TrackPos(r)
            /\ ~sel[r].active
            /\ calls[r] = <<<<"new_execution", "err">>>>
            /\ get_execution(store, IdOf(r)) = None

C12_Witness ==
    \E r \in Requests :
        /\ RegistrationFailed(r)
        /\ status[r] = "done"
        /\ now > 0

\* The select! of r ended in its first branch: the inner command returned.
InnerReturned(r) ==
    /\ status[r] = "done"
    /\ cmd[r].runs = 1
    /\ cmd[r].state = "done"

\* The record is registered InProgress before the inner command is invoked.
RegisteredFirst(r) ==
    cmd[r].runs > 0 =>
        /\ calls[r][1] = <<"new_execution", "ok">>
        /\ IsSome(get_execution(store, IdOf(r)))
        /\ Unwrap(get_execution(store, IdOf(r))).started_at <= cmd[r].due - cmd[r].delay

C14_TrackedFailure ==
    \A r \in Requests :
        (InnerReturned(r) /\ ~cmd[r].ok) =>
            /\ Cardinality(Calls(r, "execution_failed")) = 1
            /\ Calls(r, "execution_succeeded") = {}
            /\ TrackResult(r).variant = "CommandFailed"

\* C14, amended: when the inner command returns an error, exactly one
\* execution_failed(id, stringified error) write is issued, last, and no
\* execution_succeeded write; when that write succeeds a CommandFailed error
\* with the inner error as its source is returned and the record is Failed
\* with the error's message, and when it fails a Datastore error is returned.
C14_TrackedFailureAmended ==
    \A r \in Requests :
        (InnerReturned(r) /\ ~cmd[r].ok) =>
            LET row == store[IdOf(r)]
            IN  /\ Cardinality(Calls(r, "execution_failed")) = 1
                /\ Calls(r, "execution_succeeded") = {}
                /\ LastCall(r)[1] = "execution_failed"
                /\ LastCall(r)[2] = "ok" =>
                      /\ TrackResult(r) =
                            Err("CommandFailed", "TrackExecution",
                                <<"Raw", "Cmd", "Error">>)
                      /\ row.status = Failed
                      /\ row.error_message = Some("Error")
                      /\ row.command_output = None
                      /\ row.completed_at = Some(row.started_at + cmd[r].delay)
                /\ LastCall(r)[2] = "err" =>
                      /\ TrackResult(r) =
                            Err("Datastore", "TrackExecution", <<"store error">>)
                      /\ row.status = InProgress

C14_Witness ==
    \E r \in Requests :
        /\ InnerReturned(r)
        /\ ~cmd[r].ok
        /\ LastCall(r) = <<"execution_failed", "ok">>
        /\ HeartbeatWrites(r) >= 1

\* The side effect of the base command of r exists: its operation() ran.
SideEffect(r) == cmd[r].state = "done" /\ cmd[r].ok

\* C15: Execute-In-Background returns the execution id of the context as its
\* output when it spawns the inner command, whatever the inner command does
\* later, and the side effect of the inner command exists only once its delay
\* has elapsed since the task registered and started it.
C15_BackgroundReturnsImmediately ==
    \A r \in Requests :
        spawned[r] =>
            /\ reply[r] = Some(Ok(IdOf(r)))
            /\ ctx[r][TypeExecutionId] = IdOf(r)
            /\ SideEffect(r) =>
                  /\ IsSome(bgResult[r])
                  /\ store[IdOf(r)].started_at + cmd[r].delay <= now

\* The caller holds the id while the inner command is still asleep.
C15_Witness ==
    \E r \in Requests :
        /\ spawned[r]
        /\ reply[r] = Some(Ok(IdOf(r)))
        /\ cmd[r].state = "running"
        /\ cmd[r].delay > 0
        /\ now < cmd[r].due
        /\ bgResult[r] = None

-----------------------------------------------------------------------------
(* Properties of the reaping of broken executions                           *)

\* The last activity of a record: updated_at if present, otherwise started_at.
LastActivity(row) ==
    IF IsSome(row.updated_at) THEN Unwrap(row.updated_at) ELSE row.started_at

\* A record of kind `kind` that is in progress and was last active before
\* t - max_inactive.
Stale(row, kind, max_inactive, t) ==
    /\ row.kind = kind
    /\ row.status = InProgress
    /\ LastActivity(row) < t - max_inactive

\* This step is a successful handle_broken_executions call of request r.
ReapStep(r) ==
    calls'[r] = Append(calls[r], <<"handle_broken_executions", "ok">>)

\* C16: handle_broken_executions(K, max_inactive) sets status = Failed,
\* error_message = "Timeout" and completed_at = now on every record of kind K
\* that is InProgress and whose last activity is older than now - max_inactive.
C16_ReapSelection ==
    [][\A r \in Requests :
          ReapStep(r) =>
              \A id \in Rows(store) :
                  Stale(store[id], ctx[r][TypeKind], cfg.max_inactive_time, now) =>
                      /\ id \in Rows(store')
                      /\ store'[id].status = Failed
                      /\ store'[id].error_message = Some("Timeout")
                      /\ store'[id].completed_at = Some(now)]_vars

\* A record with a heartbeat was reaped at ReapNow while a record of the same
\* kind that is still active was left in progress.
C16_Witness ==
    \E r \in Requests, id \in Rows(store), other \in Rows(store) :
        /\ Called(r, "handle_broken_executions", "ok")
        /\ store[id].kind = ctx[r][TypeKind]
        /\ store[id].status = Failed
        /\ store[id].error_message = Some("Timeout")
        /\ store[id].completed_at = Some(now)
        /\ IsSome(store[id].updated_at)
        /\ LastActivity(store[id]) < now - cfg.max_inactive_time
        /\ store[other].kind = ctx[r][TypeKind]
        /\ store[other].status = InProgress

\* C17: the reap call of Handle-Broken-Executions precedes the
\* any_executions_in_progress read of Prevent-Duplicate-Executions, and a new
\* execution is rejected as a duplicate only if a record of its kind is
\* InProgress and not stale: stale records alone never block it.
C17_AbandonedDoNotBlock ==
    \A r \in Requests :
        /\ Calls(r, "any_executions_in_progress") # {} =>
              /\ calls[r][1] = <<"handle_broken_executions", "ok">>
              /\ Calls(r, "any_executions_in_progress") = {2}
        /\ SawDuplicate(r) =>
              \E id \in Rows(store) :
                  /\ store[id].kind = ctx[r][TypeKind]
                  /\ store[id].status = InProgress
                  /\ ~Stale(store[id], ctx[r][TypeKind], cfg.max_inactive_time, now)

\* Every record of the kind that was in progress was stale and was reaped, and
\* the new execution went through.
C17_Witness ==
    \E r \in Requests :
        /\ SawNoDuplicate(r)
        /\ cmd[r].runs = 1
        /\ \E id \in Rows(store) :
              /\ store[id].kind = ctx[r][TypeKind]
              /\ store[id].status = Failed
              /\ store[id].error_message = Some("Timeout")
              /\ store[id].completed_at = Some(now)

-----------------------------------------------------------------------------
(* Properties of the pre-checks                                             *)

BrokenPos(r) == IndexOf(stack[r], "HandleBroken", 1)

\* Layer j of request r returned a Datastore error of extension ext, and no
\* layer inside it was invoked: nothing returned there, nothing was spawned,
\* the base command did not run, and the failed call is the last store call.
ShortCircuited(r, j, ext) ==
    /\ status[r] = "done"
    /\ pos[r] = j
    /\ rets[r][j] = Some(Err("Datastore", ext, <<"store error">>))
    /\ \A i \in DOMAIN rets[r] : i > j => rets[r][i] = None
    /\ ~spawned[r]
    /\ cmd[r].runs = 0
    /\ LastCall(r)[2] = "err"
    /\ IsSome(reply[r]) /\ IsErr(Unwrap(reply[r]))
    /\ get_execution(store, IdOf(r)) = None

\* C18: if handle_broken_executions fails in Handle-Broken-Executions, or
\* any_executions_in_progress fails in Prevent-Duplicate-Executions, the
\* extension returns a Datastore error to its caller and the inner command is
\* never invoked.
C18_PreCheckErrorsShortCircuit ==
    \A r \in Requests :
        /\ Called(r, "handle_broken_executions", "err") =>
              /\ ShortCircuited(r, BrokenPos(r), "HandleBrokenExecutions")
              /\ Len(calls[r]) = 1
        /\ Called(r, "any_executions_in_progress", "err") =>
              /\ ShortCircuited(r, DupPos(r), "PreventDuplicateExecutions")
              /\ Len(calls[r]) = 2
              /\ Unwrap(rets[r][BrokenPos(r)]).variant = "CommandFailed"

C18_Witness ==
    \E r \in Requests :
        /\ Called(r, "any_executions_in_progress", "err")
        /\ \E q \in Requests : spawned[q] /\ Called(q, "new_execution", "ok")

-----------------------------------------------------------------------------
(* Properties of the dynamic context                                        *)

\* Every type a context of the model is extended with or asked for.
AllTypes == ContextTypes \cup {TypeExecutionId, TypeKind}

\* The positions of the extend::<ty>() calls in the history of r.
ExtendsOf(r, ty) == {i \in DOMAIN extends[r] : extends[r][i][1] = ty}

Latest(idx) == CHOOSE i \in idx : \A j \in idx : j <= i

\* C19: get::<T>() returns the value of the most recent extend::<T>(), and the
\* not-found error naming T if and only if there was no extend::<T>(); the
\* context holds one value for each type it was extended with and no other.
C19_ContextLastWriteWins ==
    \A r \in Requests :
        /\ DOMAIN ctx[r] = {extends[r][i][1] : i \in DOMAIN extends[r]}
        /\ \A ty \in AllTypes :
              /\ ExtendsOf(r, ty) = {} <=>
                    Get(ctx[r], ty) = Err("NotFound", "DynamicContext", <<ty>>)
              /\ ExtendsOf(r, ty) # {} =>
                    Get(ctx[r], ty) = Ok(extends[r][Latest(ExtendsOf(r, ty))][2])

\* A value of type A was overwritten by another one; B was never inserted.
C19_Witness ==
    \E i, j \in DOMAIN extends[1] :
        /\ i < j
        /\ extends[1][i][1] = "A" /\ extends[1][j][1] = "A"
        /\ extends[1][i][2] # extends[1][j][2]
        /\ ExtendsOf(1, "A") = {i, j}
        /\ Get(ctx[1], "A") = Ok(extends[1][j][2])
        /\ IsErr(Get(ctx[1], "B"))

\* The types of the extend calls this step adds to the history of r.
ExtendedNow(r) ==
    {extends'[r][i][1] : i \in (DOMAIN extends'[r]) \ (DOMAIN extends[r])}

\* C20: extend::<T>(v) leaves get::<U>() unchanged for every other type U.
C20_ContextTypesIndependent ==
    [][\A r \in Requests :
          \A u \in AllTypes \ ExtendedNow(r) :
              Get(ctx'[r], u) = Get(ctx[r], u)]_vars

\* A, then B, then A again: both are retrievable, B with its value.
C20_Witness ==
    /\ Len(extends[1]) = 3
    /\ extends[1][1][1] = "A"
    /\ extends[1][2][1] = "B"
    /\ extends[1][3][1] = "A"
    /\ extends[1][3][2] # extends[1][1][2]
    /\ Get(ctx[1], "B") = Ok(extends[1][2][2])
    /\ Get(ctx[1], "A") = Ok(extends[1][3][2])


-----------------------------------------------------------------------------
(* Properties of IdentifyCommand                                            *)

\* This step is the execute of the Identify layer of request r.
IdentifyStep(r) == Running(r, "Identify") /\ pos'[r] = pos[r] + 1

\* C21: Identify never fails by itself: when it runs, the inner command starts
\* with a context that holds the execution id and the kind given to Identify,
\* whatever values of those two types it held before, and every other value
\* unchanged; the reply is the output or the error of the inner command.
C21_IdentifyStampsContext ==
    [][\A r \in Requests :
          /\ IdentifyStep(r) =>
                /\ Get(ctx'[r], TypeExecutionId) = Ok(IdOf(r))
                /\ Get(ctx'[r], TypeKind) = Ok(cfg.kind[r])
                /\ \A ty \in AllTypes \ {TypeExecutionId, TypeKind} :
                      Get(ctx'[r], ty) = Get(ctx[r], ty)
                /\ status'[r] = "running"
                /\ cmd[r].state = "new" /\ cmd'[r].state = "running"
          /\ (status[r] = "running" /\ status'[r] = "done") =>
                /\ cmd'[r].state = "done"
                /\ ctx'[r] = ctx[r]
                /\ rets'[r][2] = Some(CmdResult(r))
                /\ reply'[r] = rets'[r][2]]_vars

\* A context that held another id, another kind and a value of type B was
\* identified, and the failure of the inner command is the reply.
C21_Witness ==
    \E r \in Requests :
        /\ Len(extends[r]) = 5
        /\ extends[r][1] = <<"B", 2>>
        /\ extends[r][2] = <<TypeExecutionId, OldId>>
        /\ OldId # IdOf(r)
        /\ Get(ctx[r], TypeExecutionId) = Ok(IdOf(r))
        /\ Get(ctx[r], TypeKind) = Ok(TestKind)
        /\ Get(ctx[r], "B") = Ok(2)
        /\ status[r] = "done"
        /\ reply[r] = Some(CmdError)


-----------------------------------------------------------------------------
(* Properties of the race in TrackExecution                                 *)

\* The timeout branch of the select! of r won: the inner command returned
\* nothing and the last store call of r is the write of
\* handle_execution_timeout.
TimeoutWon(r) ==
    /\ status[r] = "done"
    /\ TrackPos(r) > 0
    /\ rets[r][TrackPos(r) + 1] = None
    /\ calls[r] # <<>>
    /\ LastCall(r)[1] = "execution_failed"

\* C22: after the timeout branch wins, the inner command is cancelled: it
\* takes no further step, its operation never runs and no execution_succeeded
\* write is issued.
C22_TimeoutCancelsInner ==
    [][\A r \in Requests :
          /\ TimeoutWon(r) => cmd'[r] = cmd[r] /\ calls'[r] = calls[r]
          /\ TimeoutWon(r)' =>
                /\ cmd'[r].state = "dropped"
                /\ cmd'[r].runs = 1
                /\ ~SideEffect(r)'
                /\ Calls(r, "execution_succeeded")' = {}]_vars

\* The delay of a command that would have succeeded elapsed after the timeout
\* and the command did not complete.
C22_Witness ==
    \E r \in Requests :
        /\ TimeoutWon(r)
        /\ cmd[r].ok
        /\ cmd[r].due < now
        /\ cmd[r].state = "dropped"


-----------------------------------------------------------------------------
(* Properties of the store operations                                       *)

\* A call that failed for the pool or the statement.
StoreCallFailed == failures' = failures + 1

\* C23: execution_in_progress(id) changes a record only when its completed_at
\* is absent, and then only updated_at (set to now) and the status, which is
\* InProgress afterwards; on a completed record it returns Ok and changes no
\* field.
C23_HeartbeatOnlyWhileOpen ==
    [][StoreExecutionInProgress =>
          /\ Rows(store') = Rows(store)
          /\ \A id \in Rows(store) :
                IF id = StoreId /\ store[id].completed_at = None /\ ~StoreCallFailed
                THEN /\ store'[id] = [store[id] EXCEPT !.status = InProgress,
                                                       !.updated_at = Some(now)]
                     /\ store[id].status = InProgress
                ELSE store'[id] = store[id]
          /\ ~StoreCallFailed =>
                calls'[1] = <<<<"execution_in_progress", "ok">>>>]_vars

\* A heartbeat was written on a record that was completed earlier: the call
\* returned Ok and updated_at is older than the clock.
C23_Witness ==
    /\ StoreId \in Rows(store)
    /\ store[StoreId].completed_at # None
    /\ Unwrap(store[StoreId].completed_at) < now
    /\ store[StoreId].updated_at = None
    /\ calls[1] = <<<<"execution_in_progress", "ok">>>>


\* C24: handle_broken_executions(K, max_inactive) adds and removes no record
\* and leaves unchanged every record whose kind is not K, or whose status is
\* not InProgress, or whose last activity is not older than now - max_inactive.
C24_ReapFrame ==
    [][\A r \in Requests :
          ReapStep(r) =>
              /\ Rows(store') = Rows(store)
              /\ \A id \in Rows(store) :
                    ~Stale(store[id], ctx[r][TypeKind], cfg.max_inactive_time, now) =>
                        store'[id] = store[id]]_vars

\* After the reap: an old record in progress of another kind, next to a
\* record of the reaped kind that is in progress with a recent heartbeat.
C24_Witness ==
    /\ Called(1, "handle_broken_executions", "ok")
    /\ \E a, b \in Rows(store) :
          /\ store[a].kind # ctx[1][TypeKind]
          /\ store[a].status = InProgress
          /\ LastActivity(store[a]) < now - cfg.max_inactive_time
          /\ store[b].kind = ctx[1][TypeKind]
          /\ store[b].status = InProgress
          /\ store[b].started_at < now - cfg.max_inactive_time
          /\ LastActivity(store[b]) >= now - cfg.max_inactive_time


-----------------------------------------------------------------------------
(* Properties of live executions under concurrent reaps                     *)

\* The time at which request r called handle_broken_executions: its command
\* started in the same step.
ReapedAt(r) == cmd[r].due - cmd[r].delay

C26_CompletedIffTerminal ==
    \A id \in Rows(store) :
        /\ store[id].status \in {InProgress, Failed, Succeeded}
        /\ IsSome(store[id].completed_at) <=> store[id].status \in {Failed, Succeeded}

\* A record that was reaped or failed got a heartbeat call later on and is
\* still Failed and completed.
C26_Witness ==
    /\ StoreId \in Rows(store)
    /\ store[StoreId].status = Failed
    /\ IsSome(store[StoreId].completed_at)
    /\ Unwrap(store[StoreId].completed_at) < now
    /\ IsSome(store[StoreId].updated_at)
    /\ calls[1] = <<<<"execution_in_progress", "ok">>>>


\* This step registers the record.
Registers == StoreId \notin Rows(store) /\ StoreId \in Rows(store')

\* This step is a heartbeat written on the record while it is not completed.
HeartbeatWritten ==
    /\ StoreExecutionInProgress
    /\ ~StoreCallFailed
    /\ StoreId \in Rows(store)
    /\ store[StoreId].completed_at = None

\* This step is a reap that changes the record.
ReapAffects ==
    /\ \E kind \in StoreKinds : StoreHandleBroken(kind)
    /\ StoreId \in Rows(store)
    /\ store'[StoreId] # store[StoreId]

\* C27 as stated: updated_at is absent on a freshly registered record and is
\* set to the current time by every heartbeat and by every reap that affects
\* the record.
C27_UpdatedAtSetByReap ==
    [][/\ Registers => store'[StoreId].updated_at = None
       /\ HeartbeatWritten => store'[StoreId].updated_at = Some(now)
       /\ ReapAffects => store'[StoreId].updated_at = Some(now)]_vars

\* C27, amended: updated_at is absent on a freshly registered record and is
\* set to the current time by every heartbeat written on a record that is not
\* completed; a reap that affects the record sets its completed_at to the
\* current time and leaves its updated_at as it was.
C27_UpdatedAtSetByHeartbeat ==
    [][/\ Registers => store'[StoreId].updated_at = None
       /\ HeartbeatWritten => store'[StoreId].updated_at = Some(now)
       /\ ReapAffects =>
             /\ store'[StoreId].updated_at = store[StoreId].updated_at
             /\ store'[StoreId].completed_at = Some(now)]_vars

\* The record got a heartbeat, went stale and was reaped: its updated_at is
\* still the time of the heartbeat.
C27_Witness ==
    /\ StoreId \in Rows(store)
    /\ calls[1] = <<<<"handle_broken_executions", "ok">>>>
    /\ store[StoreId].error_message = Some("Timeout")
    /\ store[StoreId].completed_at = Some(now)
    /\ IsSome(store[StoreId].updated_at)
    /\ Unwrap(store[StoreId].updated_at) < now
    /\ store[StoreId].started_at < Unwrap(store[StoreId].updated_at)


\* C28: no heartbeat, fail, succeed or reap changes the id, the kind or
\* started_at of an existing record (and a second new_execution with its id
\* is refused).
C28_IdentityFieldsImmutable ==
    [][\A id \in Rows(store) \cap Rows(store') :
          /\ store'[id].id = store[id].id
          /\ store'[id].kind = store[id].kind
          /\ store'[id].started_at = store[id].started_at]_vars

\* A record that got a heartbeat, was reaped and then marked Succeeded, each
\* at a later time, still has the id, kind and started_at of its registration.
C28_Witness ==
    /\ StoreId \in Rows(store)
    /\ store[StoreId].id = StoreId
    /\ store[StoreId].kind = cfg.kind[1]
    /\ store[StoreId].started_at = 0
    /\ store[StoreId].updated_at = Some(1)
    /\ store[StoreId].error_message = Some("Timeout")
    /\ store[StoreId].status = Succeeded
    /\ store[StoreId].completed_at = Some(now)
    /\ now = StoreHorizon

\* C29: once new_execution(id, kind) has succeeded, get_execution(id) returns
\* the record with that id in every later state, whatever store operations
\* follow: no operation removes a record.
C29_RecordsNeverDeleted ==
    [][/\ (StoreNewExecution /\ ~StoreCallFailed) =>
             IsSome(get_execution(store', StoreId))
       /\ \A id \in Rows(store) :
             /\ IsSome(get_execution(store', id))
             /\ Unwrap(get_execution(store', id)).id = id]_vars

\* A record that was reaped long ago is still returned after a later reap.
C29_Witness ==
    /\ IsSome(get_execution(store, StoreId))
    /\ Unwrap(get_execution(store, StoreId)).error_message = Some("Timeout")
    /\ Unwrap(get_execution(store, StoreId)).status = Failed
    /\ Unwrap(Unwrap(get_execution(store, StoreId)).completed_at) < now
    /\ calls[1] = <<<<"handle_broken_executions", "ok">>>>


-----------------------------------------------------------------------------
(* Properties of the finalization by TrackExecution                         *)

\* The positions of the finalization writes among the store calls of r.
Finalizations(r) == Calls(r, "execution_succeeded") \cup Calls(r, "execution_failed")

\* The inner command of r returned to the select!.
InnerWon(r) == rets[r][TrackPos(r) + 1] # None

\* A heartbeat write of r failed and ended the select!.
HeartbeatWon(r) ==
    /\ status[r] = "done"
    /\ LastCall(r) = <<"execution_in_progress", "err">>

\* The branches of the select! of r that determined its outcome.
Winners(r) ==
    {b \in {"inner", "timeout", "heartbeat"} :
        \/ b = "inner" /\ InnerWon(r)
        \/ b = "timeout" /\ TimeoutWon(r)
        \/ b = "heartbeat" /\ HeartbeatWon(r)}

\* C30: within one TrackExecution invocation exactly one of the three racing
\* branches determines the outcome; at most one finalization write
\* (execution_succeeded or execution_failed) is issued, none while the race is
\* pending, and no store call, hence no heartbeat write, follows it.
C30_SingleFinalization ==
    \A r \in Requests :
        Called(r, "new_execution", "ok") =>
            /\ Cardinality(Finalizations(r)) <= 1
            /\ \A i \in Finalizations(r) : i = Len(calls[r])
            /\ StillTracking(r) <=> status[r] # "done"
            /\ StillTracking(r) => Finalizations(r) = {} /\ Winners(r) = {}
            /\ status[r] = "done" =>
                  /\ Cardinality(Winners(r)) = 1
                  /\ Winners(r) # {"heartbeat"} <=> Finalizations(r) # {}

\* The delay of the inner command equals max_execution_time and a heartbeat
\* was written before: the inner branch won the tie, and its write is the one
\* finalization write, at the end of the calls.
C30_Witness ==
    \E r \in Requests :
        /\ status[r] = "done"
        /\ Winners(r) = {"inner"}
        /\ cmd[r].delay = cfg.max_execution_time
        /\ HeartbeatWrites(r) >= 1
        /\ Finalizations(r) = {Len(calls[r])}
        /\ now > cmd[r].due


-----------------------------------------------------------------------------
(* Properties of the error paths of the extensions                          *)

\* The timeout branch of r won and its execution_failed write failed.
TimeoutWriteFailed(r) ==
    TimeoutWon(r) /\ LastCall(r) = <<"execution_failed", "err">>

\* C31: when max_execution_time elapses and the execution_failed(id,
\* "Timeout") write fails, TrackExecution returns a Datastore error, not the
\* timeout error; it makes no further store call and the record stays
\* InProgress.
C31_TimeoutWriteFailure ==
    [][\A r \in Requests :
          /\ TimeoutWriteFailed(r) => calls'[r] = calls[r] /\ store' = store
          /\ TimeoutWriteFailed(r)' =>
                /\ TrackResult(r)' = Err("Datastore", "TrackExecution", StoreError)
                /\ reply'[r] = Some(TrackResult(r)')
                /\ Cardinality(Finalizations(r)') = 1
                /\ store'[IdOf(r)].status = InProgress
                /\ store'[IdOf(r)].completed_at = None
                /\ store'[IdOf(r)].error_message = None]_vars

\* The write of the timeout failed after a heartbeat was written, and time
\* went on.
C31_Witness ==
    \E r \in Requests :
        /\ TimeoutWriteFailed(r)
        /\ HeartbeatWrites(r) >= 1
        /\ cmd[r].delay > cfg.max_execution_time
        /\ now > store[IdOf(r)].started_at + cfg.max_execution_time
        /\ store[IdOf(r)].status = InProgress


\* C32: with the default max_execution_time, Duration::MAX, the timeout branch
\* never completes: while the race is pending its deadline is ahead;
\* TrackExecution never writes Failed("Timeout"), and the invocation ends only
\* by the completion of the inner command or by a failed heartbeat write.
C32_UnboundedNeverTimesOut ==
    \A r \in Requests :
        (cfg.max_execution_time = DurationMax /\ Called(r, "new_execution", "ok")) =>
            /\ StillTracking(r) => now < sel[r].timeout_at
            /\ ~TimeoutWon(r)
            /\ store[IdOf(r)].error_message # Some("Timeout")
            /\ status[r] = "done" =>
                  /\ Winners(r) \in {{"inner"}, {"heartbeat"}}
                  /\ InnerWon(r) => cmd[r].due <= now

\* The inner command ran for the longest delay under the default
\* max_execution_time, heartbeats were written, and its output was saved.
C32_Witness ==
    \E r \in Requests :
        /\ cfg.max_execution_time = DurationMax
        /\ status[r] = "done"
        /\ Winners(r) = {"inner"}
        /\ cmd[r].delay = TrackHorizon - 1
        /\ HeartbeatWrites(r) >= 2
        /\ store[IdOf(r)].status = Succeeded


\* The name error_builder! gives the errors of an extension.
ExtensionName(layer) ==
    CASE layer = "HandleBroken" -> "HandleBrokenExecutions"
      [] layer = "PreventDup" -> "PreventDuplicateExecutions"
      [] layer = "ExecBg" -> "ExecuteInBackground"
      [] layer = "Track" -> "TrackExecution"

\* The context types an extension reads, in the order it reads them.
Reads(layer) ==
    CASE layer = "HandleBroken" -> <<TypeKind>>
      [] layer = "PreventDup" -> <<TypeKind>>
      [] layer = "ExecBg" -> <<TypeExecutionId>>
      [] layer = "Track" -> <<TypeExecutionId, TypeKind>>

\* The types the outermost extension of r reads and its context lacks.
Lacking(r) ==
    LET tys == Reads(stack[r][1])
    IN  {i \in DOMAIN tys : tys[i] \notin DOMAIN ctx[r]}

FirstLacking(r) ==
    LET tys == Reads(stack[r][1])
    IN  tys[CHOOSE i \in Lacking(r) : \A j \in Lacking(r) : i <= j]

\* C33: an extension whose context lacks the command kind (HandleBroken,
\* PreventDup, Track) or the execution id (ExecBg, Track) returns a Context
\* error that names the missing type; it makes no store call, spawns no task
\* and does not invoke the inner command.
C33_MissingContext ==
    \A r \in Requests :
        Lacking(r) # {} =>
            /\ pos[r] = 1
            /\ calls[r] = <<>>
            /\ ~spawned[r]
            /\ cmd[r].runs = 0
            /\ IdOf(r) \notin Rows(store)
            /\ bgResult[r] = None
            /\ status[r] = "done" =>
                  reply[r] = Some(Err("Context", ExtensionName(stack[r][1]),
                                      <<"NotFound", "DynamicContext", FirstLacking(r)>>))

\* TrackExecution, given the execution id but not the kind, returned the
\* Context error that names the kind, and the store is empty.
C33_Witness ==
    \E r \in Requests :
        /\ stack[r][1] = "Track"
        /\ DOMAIN ctx[r] = {TypeExecutionId}
        /\ status[r] = "done"
        /\ Unwrap(reply[r]).variant = "Context"
        /\ Unwrap(reply[r]).value[3] = TypeKind
        /\ store = <<>>


\* The reap calls of request r.
ReapCalls(r) == Calls(r, "handle_broken_executions")

\* What the store shows of the arguments of a successful reap of r: the
\* records it changed are the stale ones of the kind of r's context under the
\* configured max_inactive_time.
ReapedWithConfig(r) ==
    /\ Rows(store') = Rows(store)
    /\ \A id \in Rows(store) :
          store'[id] # store[id] <=>
              Stale(store[id], ctx[r][TypeKind], cfg.max_inactive_time, now)

\* HandleBroken of r invoked the command it wraps once and returned its
\* output unchanged.
InnerInvokedOnce(r) ==
    /\ pos[r] >= 2
    /\ rets[r][2] # None
    /\ cmd[r].runs <= 1
    /\ IsOk(Unwrap(rets[r][2])) => reply[r] = rets[r][2]

\* C34 as stated: with the kind in the context, HandleBroken calls
\* handle_broken_executions exactly once, with that kind and the configured
\* max_inactive_time, before the inner command starts, then invokes the inner
\* command exactly once and returns its output unchanged on success.
C34_ReapForwarded ==
    [][\A r \in Requests :
          /\ ReapStep(r) => ReapedWithConfig(r)
          /\ (pos'[r] >= 2 \/ status'[r] = "done") =>
                /\ Cardinality(ReapCalls(r)') = 1
                /\ 1 \in ReapCalls(r)'
          /\ status'[r] = "done" => InnerInvokedOnce(r)']_vars

\* C34, amended: with the kind in the context, HandleBroken calls
\* handle_broken_executions exactly once, with that kind and the configured
\* max_inactive_time, before anything else; when the call succeeds it invokes
\* the inner command exactly once and returns its output unchanged on
\* success; when the call fails it returns a Datastore error and the inner
\* command is not invoked.
C34_ReapForwardedAmended ==
    [][\A r \in Requests :
          /\ ReapStep(r) => ReapedWithConfig(r)
          /\ (pos'[r] >= 2 \/ status'[r] = "done") =>
                /\ Cardinality(ReapCalls(r)') = 1
                /\ 1 \in ReapCalls(r)'
          /\ pos'[r] >= 2 => calls'[r][1][2] = "ok"
          /\ status'[r] = "done" =>
                IF calls'[r][1][2] = "ok"
                THEN InnerInvokedOnce(r)'
                ELSE /\ pos'[r] = 1
                     /\ cmd'[r].runs = 0
                     /\ store' = store
                     /\ reply'[r] = Some(Err("Datastore", "HandleBrokenExecutions",
                                             StoreError))]_vars

\* Under the default max_inactive_time the successful reap changed no record,
\* not the one of another kind that is in progress since the start, and the
\* output of the command came back.
C34_Witness ==
    /\ cfg.max_inactive_time = DefaultMaxInactiveTime
    /\ status[1] = "done"
    /\ calls[1][1] = <<"handle_broken_executions", "ok">>
    /\ cmd[1].runs = 1
    /\ reply[1] = Some(Ok(CmdOutput))
    /\ \E id \in Rows(store) :
          /\ store[id].kind # ctx[1][TypeKind]
          /\ store[id].started_at = 0
          /\ store[id].updated_at = None
          /\ store[id].status = InProgress

\* C35: in one execution of a composed command the base command is invoked at
\* most once, whatever errors the extensions or the store report: it has run
\* once when the innermost layer was reached and not at all otherwise.
C35_NoRetry ==
    \A r \in Requests :
        /\ cmd[r].runs <= 1
        /\ cmd[r].runs = 1 <=> pos[r] = Len(stack[r])
        /\ (status[r] = "done" /\ cmd[r].runs = 1) => cmd[r].state \in {"done", "dropped"}

\* The command of a background task failed, its failure was written, and it
\* was not run again; another request ended on a store error without running
\* its command.
C35_Witness ==
    \E r, q \in Requests :
        /\ status[r] = "done"
        /\ spawned[r]
        /\ cmd[r].runs = 1
        /\ ~cmd[r].ok
        /\ Called(r, "execution_failed", "ok")
        /\ Unwrap(bgResult[r]).variant = "CommandFailed"
        /\ status[q] = "done"
        /\ ~NoStoreError(q)
        /\ cmd[q].runs = 0


-----------------------------------------------------------------------------
(* Properties of the restart stack                                          *)

\* The requests whose new_execution call succeeded.
Registered == {r \in Requests : Called(r, "new_execution", "ok")}

\* C36: in the restart stack the id returned to the caller is the id of the
\* one record the background task of the request registers, the kind of that
\* record is the kind given to Identify, and the request registers no other
\* record.
C36_ReturnedIdIsRecordId ==
    /\ Rows(store) = {IdOf(r) : r \in Registered}
    /\ \A r \in Requests :
          /\ Cardinality(Calls(r, "new_execution")) <= 1
          /\ (IsSome(reply[r]) /\ IsOk(Unwrap(reply[r]))) =>
                /\ spawned[r]
                /\ Unwrap(reply[r]).value = IdOf(r)
          /\ r \in Registered =>
                /\ reply[r] = Some(Ok(IdOf(r)))
                /\ IdOf(r) \in Rows(store)
                /\ store[IdOf(r)].id = Unwrap(reply[r]).value
                /\ store[IdOf(r)].kind = cfg.kind[r]
                /\ cfg.kind[r] = RestartDeployment

\* Two requests, one after the other, each got its own id and registered its
\* own record.
C36_Witness ==
    \E r, q \in Requests :
        /\ r # q
        /\ {r, q} \subseteq Registered
        /\ Unwrap(reply[r]).value # Unwrap(reply[q]).value
        /\ store[Unwrap(reply[r]).value].status = Succeeded
        /\ store[Unwrap(reply[q]).value].kind = RestartDeployment


\* PreventDuplicateExecutions of r refused the request.
Rejected(r) ==
    /\ IsSome(rets[r][DupPos(r)])
    /\ Unwrap(rets[r][DupPos(r)]).variant = "ExtensionFailed"
    /\ Unwrap(rets[r][DupPos(r)]).ext = "PreventDuplicateExecutions"

\* C37: when PreventDuplicateExecutions rejects a restart request, the caller
\* receives an error and no execution id, no background task is spawned and
\* the request creates no record: its store calls are the reap and the read.
C37_SynchronousRejection ==
    \A r \in Requests :
        Rejected(r) =>
            /\ status[r] = "done"
            /\ IsSome(reply[r])
            /\ IsErr(Unwrap(reply[r]))
            /\ Unwrap(reply[r]).variant = "CommandFailed"
            /\ Unwrap(reply[r]).ext = "HandleBrokenExecutions"
            /\ ~spawned[r]
            /\ bgResult[r] = None
            /\ IdOf(r) \notin Rows(store)
            /\ calls[r] = <<<<"handle_broken_executions", "ok">>,
                            <<"any_executions_in_progress", "true">>>>
            /\ cmd[r].runs = 0
            /\ ~sel[r].active

\* A request was rejected while the execution of an earlier one is still in
\* progress in the background, some time after it started.
C37_Witness ==
    \E r, q \in Requests :
        /\ Rejected(r)
        /\ q # r
        /\ spawned[q]
        /\ StillTracking(q)
        /\ store[IdOf(q)].status = InProgress
        /\ store[IdOf(q)].started_at < now

-----------------------------------------------------------------------------
(* Properties of RestartDeploymentCommand                                   *)

\* The restart of request r paused the deployment and did not resume it.
PausedNotResumed(r) ==
    /\ IsRestart(cmd[r])
    /\ cmd[r].pause = "ok"
    /\ cmd[r].resume = "none"

\* C38: a restart under the restart stack whose pause step succeeded runs its
\* resume step, also when a heartbeat write fails or the tracking timeout
\* fires during the delay between the two: the task of a restart never ends
\* with the deployment paused and the resume step not run.
C38_RestartResumes ==
    \A r \in Requests : status[r] = "done" => ~PausedNotResumed(r)

\* C39: the restart command runs pause, waits the delay, then runs resume:
\* resume runs only after pause returned Ok and no earlier than the delay
\* after it, a restart that ran to its end after a successful pause has run
\* resume, and a restart whose pause failed returns that error at the time of
\* the pause without running resume.
C39_RestartStepOrder ==
    \A r \in Requests :
        IsRestart(cmd[r]) =>
            /\ cmd[r].resume # "none" =>
                   /\ cmd[r].pause = "ok"
                   /\ cmd[r].resumed_at >= cmd[r].paused_at + cmd[r].delay
            /\ (cmd[r].state = "done" /\ cmd[r].pause = "ok") =>
                   /\ cmd[r].resume # "none"
                   /\ rets[r][Len(stack[r])] = Some(RestartResult(cmd[r]))
            /\ (cmd[r].state = "done" /\ cmd[r].pause = "err") =>
                   /\ cmd[r].resume = "none"
                   /\ cmd[r].done_at = cmd[r].paused_at
                   /\ rets[r][Len(stack[r])] = Some(PauseError)

\* A restart paused, waited its delay and resumed.
C39_Witness ==
    /\ IsRestart(cmd[1])
    /\ cmd[1].delay > 0
    /\ cmd[1].pause = "ok"
    /\ cmd[1].resume = "ok"
    /\ cmd[1].resumed_at = cmd[1].paused_at + cmd[1].delay
    /\ bgResult[1] = Some(Ok(Unit))

-----------------------------------------------------------------------------
(* Properties of AuthToken                                                  *)

\* The token the server was built with.
Configured == Unwrap(token).value

\* The value of the Authorization header of the request, if it has one.
HasAuthorization == AUTHORIZATION \in DOMAIN headers

\* C40: headers_contain_correct_token returns true if and only if the request
\* has an Authorization header whose value is "Bearer " followed by exactly
\* the configured token of 64 characters; without the header, without the
\* "Bearer " prefix, with an empty token, with a proper prefix of the token or
\* with another valid token it returns false.
C40_AuthTokenCheck ==
    authorized # None =>
        /\ Len(Configured) = AUTH_TOKEN_CHAR_COUNT
        /\ Unwrap(authorized) <=>
               (HasAuthorization /\ headers[AUTHORIZATION] = Bearer \o Configured)
        /\ ~HasAuthorization => ~Unwrap(authorized)
        /\ (HasAuthorization /\ headers[AUTHORIZATION] = Configured)
               => ~Unwrap(authorized)
        /\ (HasAuthorization /\ headers[AUTHORIZATION] = Bearer)
               => ~Unwrap(authorized)
        /\ \A i \in 0..(AUTH_TOKEN_CHAR_COUNT - 1) :
               (HasAuthorization
                /\ headers[AUTHORIZATION] = Bearer \o SubSeq(Configured, 1, i))
               => ~Unwrap(authorized)
        /\ \A other \in {TOKEN_A, TOKEN_B} \ {Configured} :
               (HasAuthorization /\ headers[AUTHORIZATION] = Bearer \o other)
               => ~Unwrap(authorized)

\* A request with the configured token was accepted.
C40_Witness ==
    /\ token = Some(Ok(TOKEN_B))
    /\ headers = [n \in {AUTHORIZATION} |-> Bearer \o TOKEN_B]
    /\ authorized = Some(TRUE)

====
